---------------------------- MODULE Spec2Model ----------------------------
(***************************************************************************)
(* Model of log_merge.py: the ADIF record parser (AdifParser), the         *)
(* duplicate index (FastDeduplicator), the grouping loop of                *)
(* process_adi_files and the writer (write_adif_file).                     *)
(*                                                                         *)
(* Text (str) is a sequence of code points, binary data (bytes) a sequence *)
(* of numbers 0..255 (with a shorthand for long stretches of blanks, see   *)
(* below).  A dict is a sequence of <<key, value>> pairs with unique keys, *)
(* in insertion order; None is the empty sequence <<>>.  The int of a      *)
(* declared length, which has no bound, is its decimal numeral.            *)
(***************************************************************************)
EXTENDS Integers, Sequences, FiniteSets, TLC

VARIABLES
    \* FastDeduplicator
    final_records,      \* group key -> list of stored records
    lookup_index,       \* group key -> (CALL, BAND, MODE) -> list of <<time, record>>
    dupe_details,       \* list of duplicate events
    calls,              \* history: the process_record calls made so far
    \* process_adi_files / AdifParser.stream_records
    files,              \* the sources of the run, in processing order
    root_count,         \* how many of them, the first ones, are in the working directory
    chunk_size,         \* bytes asked for by one f.read
    file_idx,           \* index of the source being read (1-based)
    pc,                 \* position of the run
    fpos,               \* bytes of the current source already read
    buffer,             \* stream_records: buffer
    header_found,       \* stream_records: header_found
    yielded,            \* per source, the records yielded so far
    unknown_sources,    \* file_path_rel -> count of records without STATION_CALLSIGN
    total_qso_count,    \* process_adi_files: total_qso_count
    io_errors,          \* indices of the sources whose stream ended on an I/O error
    \* a single call of a pure function
    fn,                 \* the function called
    arg,                \* its argument
    result,             \* its return value
    returned,           \* whether the call has returned
    os_linesep,         \* os.linesep of the platform the call is made on
    base_path           \* get_base_path(): the directory of the script

dedup_vars == <<final_records, lookup_index, dupe_details, calls>>
run_vars == <<files, root_count, chunk_size, file_idx, pc, fpos, buffer, header_found,
              yielded, unknown_sources, total_qso_count, io_errors>>
fn_vars == <<fn, arg, result, returned, os_linesep, base_path>>
vars == <<final_records, lookup_index, dupe_details, calls,
          files, root_count, chunk_size, file_idx, pc, fpos, buffer, header_found,
          yielded, unknown_sources, total_qso_count, io_errors,
          fn, arg, result, returned, os_linesep, base_path>>

-----------------------------------------------------------------------------
(* Tables of the Python build the program runs on (Unicode 14.0.0 and the    *)
(* gb18030 codec), as the interpreter gives them                            *)

\* str.upper() outside ASCII: <<code point, what it becomes>> for every code point
\* that changes, in ascending order
UpperTable ==
    << <<181, <<924>>>>, <<223, <<83, 83>>>>, <<224, <<192>>>>, <<225, <<193>>>>, <<226, <<194>>>>,
       <<227, <<195>>>>, <<228, <<196>>>>, <<229, <<197>>>>, <<230, <<198>>>>, <<231, <<199>>>>,
       <<232, <<200>>>>, <<233, <<201>>>>, <<234, <<202>>>>, <<235, <<203>>>>, <<236, <<204>>>>,
       <<237, <<205>>>>, <<238, <<206>>>>, <<239, <<207>>>>, <<240, <<208>>>>, <<241, <<209>>>>,
       <<242, <<210>>>>, <<243, <<211>>>>, <<244, <<212>>>>, <<245, <<213>>>>, <<246, <<214>>>>,
       <<248, <<216>>>>, <<249, <<217>>>>, <<250, <<218>>>>, <<251, <<219>>>>, <<252, <<220>>>>,
       <<253, <<221>>>>, <<254, <<222>>>>, <<255, <<376>>>>, <<257, <<256>>>>, <<259, <<258>>>>,
       <<261, <<260>>>>, <<263, <<262>>>>, <<265, <<264>>>>, <<267, <<266>>>>, <<269, <<268>>>>,
       <<271, <<270>>>>, <<273, <<272>>>>, <<275, <<274>>>>, <<277, <<276>>>>, <<279, <<278>>>>,
       <<281, <<280>>>>, <<283, <<282>>>>, <<285, <<284>>>>, <<287, <<286>>>>, <<289, <<288>>>>,
       <<291, <<290>>>>, <<293, <<292>>>>, <<295, <<294>>>>, <<297, <<296>>>>, <<299, <<298>>>>,
       <<301, <<300>>>>, <<303, <<302>>>>, <<305, <<73>>>>, <<307, <<306>>>>, <<309, <<308>>>>,
       <<311, <<310>>>>, <<314, <<313>>>>, <<316, <<315>>>>, <<318, <<317>>>>, <<320, <<319>>>>,
       <<322, <<321>>>>, <<324, <<323>>>>, <<326, <<325>>>>, <<328, <<327>>>>, <<329, <<700, 78>>>>,
       <<331, <<330>>>>, <<333, <<332>>>>, <<335, <<334>>>>, <<337, <<336>>>>, <<339, <<338>>>>,
       <<341, <<340>>>>, <<343, <<342>>>>, <<345, <<344>>>>, <<347, <<346>>>>, <<349, <<348>>>>,
       <<351, <<350>>>>, <<353, <<352>>>>, <<355, <<354>>>>, <<357, <<356>>>>, <<359, <<358>>>>,
       <<361, <<360>>>>, <<363, <<362>>>>, <<365, <<364>>>>, <<367, <<366>>>>, <<369, <<368>>>>,
       <<371, <<370>>>>, <<373, <<372>>>>, <<375, <<374>>>>, <<378, <<377>>>>, <<380, <<379>>>>,
       <<382, <<381>>>>, <<383, <<83>>>>, <<384, <<579>>>>, <<387, <<386>>>>, <<389, <<388>>>>,
       <<392, <<391>>>>, <<396, <<395>>>>, <<402, <<401>>>>, <<405, <<502>>>>, <<409, <<408>>>>,
       <<410, <<573>>>>, <<414, <<544>>>>, <<417, <<416>>>>, <<419, <<418>>>>, <<421, <<420>>>>,
       <<424, <<423>>>>, <<429, <<428>>>>, <<432, <<431>>>>, <<436, <<435>>>>, <<438, <<437>>>>,
       <<441, <<440>>>>, <<445, <<444>>>>, <<447, <<503>>>>, <<453, <<452>>>>, <<454, <<452>>>>,
       <<456, <<455>>>>, <<457, <<455>>>>, <<459, <<458>>>>, <<460, <<458>>>>, <<462, <<461>>>>,
       <<464, <<463>>>>, <<466, <<465>>>>, <<468, <<467>>>>, <<470, <<469>>>>, <<472, <<471>>>>,
       <<474, <<473>>>>, <<476, <<475>>>>, <<477, <<398>>>>, <<479, <<478>>>>, <<481, <<480>>>>,
       <<483, <<482>>>>, <<485, <<484>>>>, <<487, <<486>>>>, <<489, <<488>>>>, <<491, <<490>>>>,
       <<493, <<492>>>>, <<495, <<494>>>>, <<496, <<74, 780>>>>, <<498, <<497>>>>, <<499, <<497>>>>,
       <<501, <<500>>>>, <<505, <<504>>>>, <<507, <<506>>>>, <<509, <<508>>>>, <<511, <<510>>>>,
       <<513, <<512>>>>, <<515, <<514>>>>, <<517, <<516>>>>, <<519, <<518>>>>, <<521, <<520>>>>,
       <<523, <<522>>>>, <<525, <<524>>>>, <<527, <<526>>>>, <<529, <<528>>>>, <<531, <<530>>>>,
       <<533, <<532>>>>, <<535, <<534>>>>, <<537, <<536>>>>, <<539, <<538>>>>, <<541, <<540>>>>,
       <<543, <<542>>>>, <<547, <<546>>>>, <<549, <<548>>>>, <<551, <<550>>>>, <<553, <<552>>>>,
       <<555, <<554>>>>, <<557, <<556>>>>, <<559, <<558>>>>, <<561, <<560>>>>, <<563, <<562>>>>,
       <<572, <<571>>>>, <<575, <<11390>>>>, <<576, <<11391>>>>, <<578, <<577>>>>, <<583, <<582>>>>,
       <<585, <<584>>>>, <<587, <<586>>>>, <<589, <<588>>>>, <<591, <<590>>>>, <<592, <<11375>>>>,
       <<593, <<11373>>>>, <<594, <<11376>>>>, <<595, <<385>>>>, <<596, <<390>>>>, <<598, <<393>>>>,
       <<599, <<394>>>>, <<601, <<399>>>>, <<603, <<400>>>>, <<604, <<42923>>>>, <<608, <<403>>>>,
       <<609, <<42924>>>>, <<611, <<404>>>>, <<613, <<42893>>>>, <<614, <<42922>>>>, <<616, <<407>>>>,
       <<617, <<406>>>>, <<618, <<42926>>>>, <<619, <<11362>>>>, <<620, <<42925>>>>, <<623, <<412>>>>,
       <<625, <<11374>>>>, <<626, <<413>>>>, <<629, <<415>>>>, <<637, <<11364>>>>, <<640, <<422>>>>,
       <<642, <<42949>>>>, <<643, <<425>>>>, <<647, <<42929>>>>, <<648, <<430>>>>, <<649, <<580>>>>,
       <<650, <<433>>>>, <<651, <<434>>>>, <<652, <<581>>>>, <<658, <<439>>>>, <<669, <<42930>>>>,
       <<670, <<42928>>>>, <<837, <<921>>>>, <<881, <<880>>>>, <<883, <<882>>>>, <<887, <<886>>>>,
       <<891, <<1021>>>>, <<892, <<1022>>>>, <<893, <<1023>>>>, <<912, <<921, 776, 769>>>>,
       <<940, <<902>>>>, <<941, <<904>>>>, <<942, <<905>>>>, <<943, <<906>>>>, <<944, <<933, 776, 769>>>>,
       <<945, <<913>>>>, <<946, <<914>>>>, <<947, <<915>>>>, <<948, <<916>>>>, <<949, <<917>>>>,
       <<950, <<918>>>>, <<951, <<919>>>>, <<952, <<920>>>>, <<953, <<921>>>>, <<954, <<922>>>>,
       <<955, <<923>>>>, <<956, <<924>>>>, <<957, <<925>>>>, <<958, <<926>>>>, <<959, <<927>>>>,
       <<960, <<928>>>>, <<961, <<929>>>>, <<962, <<931>>>>, <<963, <<931>>>>, <<964, <<932>>>>,
       <<965, <<933>>>>, <<966, <<934>>>>, <<967, <<935>>>>, <<968, <<936>>>>, <<969, <<937>>>>,
       <<970, <<938>>>>, <<971, <<939>>>>, <<972, <<908>>>>, <<973, <<910>>>>, <<974, <<911>>>>,
       <<976, <<914>>>>, <<977, <<920>>>>, <<981, <<934>>>>, <<982, <<928>>>>, <<983, <<975>>>>,
       <<985, <<984>>>>, <<987, <<986>>>>, <<989, <<988>>>>, <<991, <<990>>>>, <<993, <<992>>>>,
       <<995, <<994>>>>, <<997, <<996>>>>, <<999, <<998>>>>, <<1001, <<1000>>>>, <<1003, <<1002>>>>,
       <<1005, <<1004>>>>, <<1007, <<1006>>>>, <<1008, <<922>>>>, <<1009, <<929>>>>, <<1010, <<1017>>>>,
       <<1011, <<895>>>>, <<1013, <<917>>>>, <<1016, <<1015>>>>, <<1019, <<1018>>>>, <<1072, <<1040>>>>,
       <<1073, <<1041>>>>, <<1074, <<1042>>>>, <<1075, <<1043>>>>, <<1076, <<1044>>>>, <<1077, <<1045>>>>,
       <<1078, <<1046>>>>, <<1079, <<1047>>>>, <<1080, <<1048>>>>, <<1081, <<1049>>>>, <<1082, <<1050>>>>,
       <<1083, <<1051>>>>, <<1084, <<1052>>>>, <<1085, <<1053>>>>, <<1086, <<1054>>>>, <<1087, <<1055>>>>,
       <<1088, <<1056>>>>, <<1089, <<1057>>>>, <<1090, <<1058>>>>, <<1091, <<1059>>>>, <<1092, <<1060>>>>,
       <<1093, <<1061>>>>, <<1094, <<1062>>>>, <<1095, <<1063>>>>, <<1096, <<1064>>>>, <<1097, <<1065>>>>,
       <<1098, <<1066>>>>, <<1099, <<1067>>>>, <<1100, <<1068>>>>, <<1101, <<1069>>>>, <<1102, <<1070>>>>,
       <<1103, <<1071>>>>, <<1104, <<1024>>>>, <<1105, <<1025>>>>, <<1106, <<1026>>>>, <<1107, <<1027>>>>,
       <<1108, <<1028>>>>, <<1109, <<1029>>>>, <<1110, <<1030>>>>, <<1111, <<1031>>>>, <<1112, <<1032>>>>,
       <<1113, <<1033>>>>, <<1114, <<1034>>>>, <<1115, <<1035>>>>, <<1116, <<1036>>>>, <<1117, <<1037>>>>,
       <<1118, <<1038>>>>, <<1119, <<1039>>>>, <<1121, <<1120>>>>, <<1123, <<1122>>>>, <<1125, <<1124>>>>,
       <<1127, <<1126>>>>, <<1129, <<1128>>>>, <<1131, <<1130>>>>, <<1133, <<1132>>>>, <<1135, <<1134>>>>,
       <<1137, <<1136>>>>, <<1139, <<1138>>>>, <<1141, <<1140>>>>, <<1143, <<1142>>>>, <<1145, <<1144>>>>,
       <<1147, <<1146>>>>, <<1149, <<1148>>>>, <<1151, <<1150>>>>, <<1153, <<1152>>>>, <<1163, <<1162>>>>,
       <<1165, <<1164>>>>, <<1167, <<1166>>>>, <<1169, <<1168>>>>, <<1171, <<1170>>>>, <<1173, <<1172>>>>,
       <<1175, <<1174>>>>, <<1177, <<1176>>>>, <<1179, <<1178>>>>, <<1181, <<1180>>>>, <<1183, <<1182>>>>,
       <<1185, <<1184>>>>, <<1187, <<1186>>>>, <<1189, <<1188>>>>, <<1191, <<1190>>>>, <<1193, <<1192>>>>,
       <<1195, <<1194>>>>, <<1197, <<1196>>>>, <<1199, <<1198>>>>, <<1201, <<1200>>>>, <<1203, <<1202>>>>,
       <<1205, <<1204>>>>, <<1207, <<1206>>>>, <<1209, <<1208>>>>, <<1211, <<1210>>>>, <<1213, <<1212>>>>,
       <<1215, <<1214>>>>, <<1218, <<1217>>>>, <<1220, <<1219>>>>, <<1222, <<1221>>>>, <<1224, <<1223>>>>,
       <<1226, <<1225>>>>, <<1228, <<1227>>>>, <<1230, <<1229>>>>, <<1231, <<1216>>>>, <<1233, <<1232>>>>,
       <<1235, <<1234>>>>, <<1237, <<1236>>>>, <<1239, <<1238>>>>, <<1241, <<1240>>>>, <<1243, <<1242>>>>,
       <<1245, <<1244>>>>, <<1247, <<1246>>>>, <<1249, <<1248>>>>, <<1251, <<1250>>>>, <<1253, <<1252>>>>,
       <<1255, <<1254>>>>, <<1257, <<1256>>>>, <<1259, <<1258>>>>, <<1261, <<1260>>>>, <<1263, <<1262>>>>,
       <<1265, <<1264>>>>, <<1267, <<1266>>>>, <<1269, <<1268>>>>, <<1271, <<1270>>>>, <<1273, <<1272>>>>,
       <<1275, <<1274>>>>, <<1277, <<1276>>>>, <<1279, <<1278>>>>, <<1281, <<1280>>>>, <<1283, <<1282>>>>,
       <<1285, <<1284>>>>, <<1287, <<1286>>>>, <<1289, <<1288>>>>, <<1291, <<1290>>>>, <<1293, <<1292>>>>,
       <<1295, <<1294>>>>, <<1297, <<1296>>>>, <<1299, <<1298>>>>, <<1301, <<1300>>>>, <<1303, <<1302>>>>,
       <<1305, <<1304>>>>, <<1307, <<1306>>>>, <<1309, <<1308>>>>, <<1311, <<1310>>>>, <<1313, <<1312>>>>,
       <<1315, <<1314>>>>, <<1317, <<1316>>>>, <<1319, <<1318>>>>, <<1321, <<1320>>>>, <<1323, <<1322>>>>,
       <<1325, <<1324>>>>, <<1327, <<1326>>>>, <<1377, <<1329>>>>, <<1378, <<1330>>>>, <<1379, <<1331>>>>,
       <<1380, <<1332>>>>, <<1381, <<1333>>>>, <<1382, <<1334>>>>, <<1383, <<1335>>>>, <<1384, <<1336>>>>,
       <<1385, <<1337>>>>, <<1386, <<1338>>>>, <<1387, <<1339>>>>, <<1388, <<1340>>>>, <<1389, <<1341>>>>,
       <<1390, <<1342>>>>, <<1391, <<1343>>>>, <<1392, <<1344>>>>, <<1393, <<1345>>>>, <<1394, <<1346>>>>,
       <<1395, <<1347>>>>, <<1396, <<1348>>>>, <<1397, <<1349>>>>, <<1398, <<1350>>>>, <<1399, <<1351>>>>,
       <<1400, <<1352>>>>, <<1401, <<1353>>>>, <<1402, <<1354>>>>, <<1403, <<1355>>>>, <<1404, <<1356>>>>,
       <<1405, <<1357>>>>, <<1406, <<1358>>>>, <<1407, <<1359>>>>, <<1408, <<1360>>>>, <<1409, <<1361>>>>,
       <<1410, <<1362>>>>, <<1411, <<1363>>>>, <<1412, <<1364>>>>, <<1413, <<1365>>>>, <<1414, <<1366>>>>,
       <<1415, <<1333, 1362>>>>, <<4304, <<7312>>>>, <<4305, <<7313>>>>, <<4306, <<7314>>>>,
       <<4307, <<7315>>>>, <<4308, <<7316>>>>, <<4309, <<7317>>>>, <<4310, <<7318>>>>, <<4311, <<7319>>>>,
       <<4312, <<7320>>>>, <<4313, <<7321>>>>, <<4314, <<7322>>>>, <<4315, <<7323>>>>, <<4316, <<7324>>>>,
       <<4317, <<7325>>>>, <<4318, <<7326>>>>, <<4319, <<7327>>>>, <<4320, <<7328>>>>, <<4321, <<7329>>>>,
       <<4322, <<7330>>>>, <<4323, <<7331>>>>, <<4324, <<7332>>>>, <<4325, <<7333>>>>, <<4326, <<7334>>>>,
       <<4327, <<7335>>>>, <<4328, <<7336>>>>, <<4329, <<7337>>>>, <<4330, <<7338>>>>, <<4331, <<7339>>>>,
       <<4332, <<7340>>>>, <<4333, <<7341>>>>, <<4334, <<7342>>>>, <<4335, <<7343>>>>, <<4336, <<7344>>>>,
       <<4337, <<7345>>>>, <<4338, <<7346>>>>, <<4339, <<7347>>>>, <<4340, <<7348>>>>, <<4341, <<7349>>>>,
       <<4342, <<7350>>>>, <<4343, <<7351>>>>, <<4344, <<7352>>>>, <<4345, <<7353>>>>, <<4346, <<7354>>>>,
       <<4349, <<7357>>>>, <<4350, <<7358>>>>, <<4351, <<7359>>>>, <<5112, <<5104>>>>, <<5113, <<5105>>>>,
       <<5114, <<5106>>>>, <<5115, <<5107>>>>, <<5116, <<5108>>>>, <<5117, <<5109>>>>, <<7296, <<1042>>>>,
       <<7297, <<1044>>>>, <<7298, <<1054>>>>, <<7299, <<1057>>>>, <<7300, <<1058>>>>, <<7301, <<1058>>>>,
       <<7302, <<1066>>>>, <<7303, <<1122>>>>, <<7304, <<42570>>>>, <<7545, <<42877>>>>,
       <<7549, <<11363>>>>, <<7566, <<42950>>>>, <<7681, <<7680>>>>, <<7683, <<7682>>>>, <<7685, <<7684>>>>,
       <<7687, <<7686>>>>, <<7689, <<7688>>>>, <<7691, <<7690>>>>, <<7693, <<7692>>>>, <<7695, <<7694>>>>,
       <<7697, <<7696>>>>, <<7699, <<7698>>>>, <<7701, <<7700>>>>, <<7703, <<7702>>>>, <<7705, <<7704>>>>,
       <<7707, <<7706>>>>, <<7709, <<7708>>>>, <<7711, <<7710>>>>, <<7713, <<7712>>>>, <<7715, <<7714>>>>,
       <<7717, <<7716>>>>, <<7719, <<7718>>>>, <<7721, <<7720>>>>, <<7723, <<7722>>>>, <<7725, <<7724>>>>,
       <<7727, <<7726>>>>, <<7729, <<7728>>>>, <<7731, <<7730>>>>, <<7733, <<7732>>>>, <<7735, <<7734>>>>,
       <<7737, <<7736>>>>, <<7739, <<7738>>>>, <<7741, <<7740>>>>, <<7743, <<7742>>>>, <<7745, <<7744>>>>,
       <<7747, <<7746>>>>, <<7749, <<7748>>>>, <<7751, <<7750>>>>, <<7753, <<7752>>>>, <<7755, <<7754>>>>,
       <<7757, <<7756>>>>, <<7759, <<7758>>>>, <<7761, <<7760>>>>, <<7763, <<7762>>>>, <<7765, <<7764>>>>,
       <<7767, <<7766>>>>, <<7769, <<7768>>>>, <<7771, <<7770>>>>, <<7773, <<7772>>>>, <<7775, <<7774>>>>,
       <<7777, <<7776>>>>, <<7779, <<7778>>>>, <<7781, <<7780>>>>, <<7783, <<7782>>>>, <<7785, <<7784>>>>,
       <<7787, <<7786>>>>, <<7789, <<7788>>>>, <<7791, <<7790>>>>, <<7793, <<7792>>>>, <<7795, <<7794>>>>,
       <<7797, <<7796>>>>, <<7799, <<7798>>>>, <<7801, <<7800>>>>, <<7803, <<7802>>>>, <<7805, <<7804>>>>,
       <<7807, <<7806>>>>, <<7809, <<7808>>>>, <<7811, <<7810>>>>, <<7813, <<7812>>>>, <<7815, <<7814>>>>,
       <<7817, <<7816>>>>, <<7819, <<7818>>>>, <<7821, <<7820>>>>, <<7823, <<7822>>>>, <<7825, <<7824>>>>,
       <<7827, <<7826>>>>, <<7829, <<7828>>>>, <<7830, <<72, 817>>>>, <<7831, <<84, 776>>>>,
       <<7832, <<87, 778>>>>, <<7833, <<89, 778>>>>, <<7834, <<65, 702>>>>, <<7835, <<7776>>>>,
       <<7841, <<7840>>>>, <<7843, <<7842>>>>, <<7845, <<7844>>>>, <<7847, <<7846>>>>, <<7849, <<7848>>>>,
       <<7851, <<7850>>>>, <<7853, <<7852>>>>, <<7855, <<7854>>>>, <<7857, <<7856>>>>, <<7859, <<7858>>>>,
       <<7861, <<7860>>>>, <<7863, <<7862>>>>, <<7865, <<7864>>>>, <<7867, <<7866>>>>, <<7869, <<7868>>>>,
       <<7871, <<7870>>>>, <<7873, <<7872>>>>, <<7875, <<7874>>>>, <<7877, <<7876>>>>, <<7879, <<7878>>>>,
       <<7881, <<7880>>>>, <<7883, <<7882>>>>, <<7885, <<7884>>>>, <<7887, <<7886>>>>, <<7889, <<7888>>>>,
       <<7891, <<7890>>>>, <<7893, <<7892>>>>, <<7895, <<7894>>>>, <<7897, <<7896>>>>, <<7899, <<7898>>>>,
       <<7901, <<7900>>>>, <<7903, <<7902>>>>, <<7905, <<7904>>>>, <<7907, <<7906>>>>, <<7909, <<7908>>>>,
       <<7911, <<7910>>>>, <<7913, <<7912>>>>, <<7915, <<7914>>>>, <<7917, <<7916>>>>, <<7919, <<7918>>>>,
       <<7921, <<7920>>>>, <<7923, <<7922>>>>, <<7925, <<7924>>>>, <<7927, <<7926>>>>, <<7929, <<7928>>>>,
       <<7931, <<7930>>>>, <<7933, <<7932>>>>, <<7935, <<7934>>>>, <<7936, <<7944>>>>, <<7937, <<7945>>>>,
       <<7938, <<7946>>>>, <<7939, <<7947>>>>, <<7940, <<7948>>>>, <<7941, <<7949>>>>, <<7942, <<7950>>>>,
       <<7943, <<7951>>>>, <<7952, <<7960>>>>, <<7953, <<7961>>>>, <<7954, <<7962>>>>, <<7955, <<7963>>>>,
       <<7956, <<7964>>>>, <<7957, <<7965>>>>, <<7968, <<7976>>>>, <<7969, <<7977>>>>, <<7970, <<7978>>>>,
       <<7971, <<7979>>>>, <<7972, <<7980>>>>, <<7973, <<7981>>>>, <<7974, <<7982>>>>, <<7975, <<7983>>>>,
       <<7984, <<7992>>>>, <<7985, <<7993>>>>, <<7986, <<7994>>>>, <<7987, <<7995>>>>, <<7988, <<7996>>>>,
       <<7989, <<7997>>>>, <<7990, <<7998>>>>, <<7991, <<7999>>>>, <<8000, <<8008>>>>, <<8001, <<8009>>>>,
       <<8002, <<8010>>>>, <<8003, <<8011>>>>, <<8004, <<8012>>>>, <<8005, <<8013>>>>,
       <<8016, <<933, 787>>>>, <<8017, <<8025>>>>, <<8018, <<933, 787, 768>>>>, <<8019, <<8027>>>>,
       <<8020, <<933, 787, 769>>>>, <<8021, <<8029>>>>, <<8022, <<933, 787, 834>>>>, <<8023, <<8031>>>>,
       <<8032, <<8040>>>>, <<8033, <<8041>>>>, <<8034, <<8042>>>>, <<8035, <<8043>>>>, <<8036, <<8044>>>>,
       <<8037, <<8045>>>>, <<8038, <<8046>>>>, <<8039, <<8047>>>>, <<8048, <<8122>>>>, <<8049, <<8123>>>>,
       <<8050, <<8136>>>>, <<8051, <<8137>>>>, <<8052, <<8138>>>>, <<8053, <<8139>>>>, <<8054, <<8154>>>>,
       <<8055, <<8155>>>>, <<8056, <<8184>>>>, <<8057, <<8185>>>>, <<8058, <<8170>>>>, <<8059, <<8171>>>>,
       <<8060, <<8186>>>>, <<8061, <<8187>>>>, <<8064, <<7944, 921>>>>, <<8065, <<7945, 921>>>>,
       <<8066, <<7946, 921>>>>, <<8067, <<7947, 921>>>>, <<8068, <<7948, 921>>>>, <<8069, <<7949, 921>>>>,
       <<8070, <<7950, 921>>>>, <<8071, <<7951, 921>>>>, <<8072, <<7944, 921>>>>, <<8073, <<7945, 921>>>>,
       <<8074, <<7946, 921>>>>, <<8075, <<7947, 921>>>>, <<8076, <<7948, 921>>>>, <<8077, <<7949, 921>>>>,
       <<8078, <<7950, 921>>>>, <<8079, <<7951, 921>>>>, <<8080, <<7976, 921>>>>, <<8081, <<7977, 921>>>>,
       <<8082, <<7978, 921>>>>, <<8083, <<7979, 921>>>>, <<8084, <<7980, 921>>>>, <<8085, <<7981, 921>>>>,
       <<8086, <<7982, 921>>>>, <<8087, <<7983, 921>>>>, <<8088, <<7976, 921>>>>, <<8089, <<7977, 921>>>>,
       <<8090, <<7978, 921>>>>, <<8091, <<7979, 921>>>>, <<8092, <<7980, 921>>>>, <<8093, <<7981, 921>>>>,
       <<8094, <<7982, 921>>>>, <<8095, <<7983, 921>>>>, <<8096, <<8040, 921>>>>, <<8097, <<8041, 921>>>>,
       <<8098, <<8042, 921>>>>, <<8099, <<8043, 921>>>>, <<8100, <<8044, 921>>>>, <<8101, <<8045, 921>>>>,
       <<8102, <<8046, 921>>>>, <<8103, <<8047, 921>>>>, <<8104, <<8040, 921>>>>, <<8105, <<8041, 921>>>>,
       <<8106, <<8042, 921>>>>, <<8107, <<8043, 921>>>>, <<8108, <<8044, 921>>>>, <<8109, <<8045, 921>>>>,
       <<8110, <<8046, 921>>>>, <<8111, <<8047, 921>>>>, <<8112, <<8120>>>>, <<8113, <<8121>>>>,
       <<8114, <<8122, 921>>>>, <<8115, <<913, 921>>>>, <<8116, <<902, 921>>>>, <<8118, <<913, 834>>>>,
       <<8119, <<913, 834, 921>>>>, <<8124, <<913, 921>>>>, <<8126, <<921>>>>, <<8130, <<8138, 921>>>>,
       <<8131, <<919, 921>>>>, <<8132, <<905, 921>>>>, <<8134, <<919, 834>>>>, <<8135, <<919, 834, 921>>>>,
       <<8140, <<919, 921>>>>, <<8144, <<8152>>>>, <<8145, <<8153>>>>, <<8146, <<921, 776, 768>>>>,
       <<8147, <<921, 776, 769>>>>, <<8150, <<921, 834>>>>, <<8151, <<921, 776, 834>>>>, <<8160, <<8168>>>>,
       <<8161, <<8169>>>>, <<8162, <<933, 776, 768>>>>, <<8163, <<933, 776, 769>>>>, <<8164, <<929, 787>>>>,
       <<8165, <<8172>>>>, <<8166, <<933, 834>>>>, <<8167, <<933, 776, 834>>>>, <<8178, <<8186, 921>>>>,
       <<8179, <<937, 921>>>>, <<8180, <<911, 921>>>>, <<8182, <<937, 834>>>>, <<8183, <<937, 834, 921>>>>,
       <<8188, <<937, 921>>>>, <<8526, <<8498>>>>, <<8560, <<8544>>>>, <<8561, <<8545>>>>,
       <<8562, <<8546>>>>, <<8563, <<8547>>>>, <<8564, <<8548>>>>, <<8565, <<8549>>>>, <<8566, <<8550>>>>,
       <<8567, <<8551>>>>, <<8568, <<8552>>>>, <<8569, <<8553>>>>, <<8570, <<8554>>>>, <<8571, <<8555>>>>,
       <<8572, <<8556>>>>, <<8573, <<8557>>>>, <<8574, <<8558>>>>, <<8575, <<8559>>>>, <<8580, <<8579>>>>,
       <<9424, <<9398>>>>, <<9425, <<9399>>>>, <<9426, <<9400>>>>, <<9427, <<9401>>>>, <<9428, <<9402>>>>,
       <<9429, <<9403>>>>, <<9430, <<9404>>>>, <<9431, <<9405>>>>, <<9432, <<9406>>>>, <<9433, <<9407>>>>,
       <<9434, <<9408>>>>, <<9435, <<9409>>>>, <<9436, <<9410>>>>, <<9437, <<9411>>>>, <<9438, <<9412>>>>,
       <<9439, <<9413>>>>, <<9440, <<9414>>>>, <<9441, <<9415>>>>, <<9442, <<9416>>>>, <<9443, <<9417>>>>,
       <<9444, <<9418>>>>, <<9445, <<9419>>>>, <<9446, <<9420>>>>, <<9447, <<9421>>>>, <<9448, <<9422>>>>,
       <<9449, <<9423>>>>, <<11312, <<11264>>>>, <<11313, <<11265>>>>, <<11314, <<11266>>>>,
       <<11315, <<11267>>>>, <<11316, <<11268>>>>, <<11317, <<11269>>>>, <<11318, <<11270>>>>,
       <<11319, <<11271>>>>, <<11320, <<11272>>>>, <<11321, <<11273>>>>, <<11322, <<11274>>>>,
       <<11323, <<11275>>>>, <<11324, <<11276>>>>, <<11325, <<11277>>>>, <<11326, <<11278>>>>,
       <<11327, <<11279>>>>, <<11328, <<11280>>>>, <<11329, <<11281>>>>, <<11330, <<11282>>>>,
       <<11331, <<11283>>>>, <<11332, <<11284>>>>, <<11333, <<11285>>>>, <<11334, <<11286>>>>,
       <<11335, <<11287>>>>, <<11336, <<11288>>>>, <<11337, <<11289>>>>, <<11338, <<11290>>>>,
       <<11339, <<11291>>>>, <<11340, <<11292>>>>, <<11341, <<11293>>>>, <<11342, <<11294>>>>,
       <<11343, <<11295>>>>, <<11344, <<11296>>>>, <<11345, <<11297>>>>, <<11346, <<11298>>>>,
       <<11347, <<11299>>>>, <<11348, <<11300>>>>, <<11349, <<11301>>>>, <<11350, <<11302>>>>,
       <<11351, <<11303>>>>, <<11352, <<11304>>>>, <<11353, <<11305>>>>, <<11354, <<11306>>>>,
       <<11355, <<11307>>>>, <<11356, <<11308>>>>, <<11357, <<11309>>>>, <<11358, <<11310>>>>,
       <<11359, <<11311>>>>, <<11361, <<11360>>>>, <<11365, <<570>>>>, <<11366, <<574>>>>,
       <<11368, <<11367>>>>, <<11370, <<11369>>>>, <<11372, <<11371>>>>, <<11379, <<11378>>>>,
       <<11382, <<11381>>>>, <<11393, <<11392>>>>, <<11395, <<11394>>>>, <<11397, <<11396>>>>,
       <<11399, <<11398>>>>, <<11401, <<11400>>>>, <<11403, <<11402>>>>, <<11405, <<11404>>>>,
       <<11407, <<11406>>>>, <<11409, <<11408>>>>, <<11411, <<11410>>>>, <<11413, <<11412>>>>,
       <<11415, <<11414>>>>, <<11417, <<11416>>>>, <<11419, <<11418>>>>, <<11421, <<11420>>>>,
       <<11423, <<11422>>>>, <<11425, <<11424>>>>, <<11427, <<11426>>>>, <<11429, <<11428>>>>,
       <<11431, <<11430>>>>, <<11433, <<11432>>>>, <<11435, <<11434>>>>, <<11437, <<11436>>>>,
       <<11439, <<11438>>>>, <<11441, <<11440>>>>, <<11443, <<11442>>>>, <<11445, <<11444>>>>,
       <<11447, <<11446>>>>, <<11449, <<11448>>>>, <<11451, <<11450>>>>, <<11453, <<11452>>>>,
       <<11455, <<11454>>>>, <<11457, <<11456>>>>, <<11459, <<11458>>>>, <<11461, <<11460>>>>,
       <<11463, <<11462>>>>, <<11465, <<11464>>>>, <<11467, <<11466>>>>, <<11469, <<11468>>>>,
       <<11471, <<11470>>>>, <<11473, <<11472>>>>, <<11475, <<11474>>>>, <<11477, <<11476>>>>,
       <<11479, <<11478>>>>, <<11481, <<11480>>>>, <<11483, <<11482>>>>, <<11485, <<11484>>>>,
       <<11487, <<11486>>>>, <<11489, <<11488>>>>, <<11491, <<11490>>>>, <<11500, <<11499>>>>,
       <<11502, <<11501>>>>, <<11507, <<11506>>>>, <<11520, <<4256>>>>, <<11521, <<4257>>>>,
       <<11522, <<4258>>>>, <<11523, <<4259>>>>, <<11524, <<4260>>>>, <<11525, <<4261>>>>,
       <<11526, <<4262>>>>, <<11527, <<4263>>>>, <<11528, <<4264>>>>, <<11529, <<4265>>>>,
       <<11530, <<4266>>>>, <<11531, <<4267>>>>, <<11532, <<4268>>>>, <<11533, <<4269>>>>,
       <<11534, <<4270>>>>, <<11535, <<4271>>>>, <<11536, <<4272>>>>, <<11537, <<4273>>>>,
       <<11538, <<4274>>>>, <<11539, <<4275>>>>, <<11540, <<4276>>>>, <<11541, <<4277>>>>,
       <<11542, <<4278>>>>, <<11543, <<4279>>>>, <<11544, <<4280>>>>, <<11545, <<4281>>>>,
       <<11546, <<4282>>>>, <<11547, <<4283>>>>, <<11548, <<4284>>>>, <<11549, <<4285>>>>,
       <<11550, <<4286>>>>, <<11551, <<4287>>>>, <<11552, <<4288>>>>, <<11553, <<4289>>>>,
       <<11554, <<4290>>>>, <<11555, <<4291>>>>, <<11556, <<4292>>>>, <<11557, <<4293>>>>,
       <<11559, <<4295>>>>, <<11565, <<4301>>>>, <<42561, <<42560>>>>, <<42563, <<42562>>>>,
       <<42565, <<42564>>>>, <<42567, <<42566>>>>, <<42569, <<42568>>>>, <<42571, <<42570>>>>,
       <<42573, <<42572>>>>, <<42575, <<42574>>>>, <<42577, <<42576>>>>, <<42579, <<42578>>>>,
       <<42581, <<42580>>>>, <<42583, <<42582>>>>, <<42585, <<42584>>>>, <<42587, <<42586>>>>,
       <<42589, <<42588>>>>, <<42591, <<42590>>>>, <<42593, <<42592>>>>, <<42595, <<42594>>>>,
       <<42597, <<42596>>>>, <<42599, <<42598>>>>, <<42601, <<42600>>>>, <<42603, <<42602>>>>,
       <<42605, <<42604>>>>, <<42625, <<42624>>>>, <<42627, <<42626>>>>, <<42629, <<42628>>>>,
       <<42631, <<42630>>>>, <<42633, <<42632>>>>, <<42635, <<42634>>>>, <<42637, <<42636>>>>,
       <<42639, <<42638>>>>, <<42641, <<42640>>>>, <<42643, <<42642>>>>, <<42645, <<42644>>>>,
       <<42647, <<42646>>>>, <<42649, <<42648>>>>, <<42651, <<42650>>>>, <<42787, <<42786>>>>,
       <<42789, <<42788>>>>, <<42791, <<42790>>>>, <<42793, <<42792>>>>, <<42795, <<42794>>>>,
       <<42797, <<42796>>>>, <<42799, <<42798>>>>, <<42803, <<42802>>>>, <<42805, <<42804>>>>,
       <<42807, <<42806>>>>, <<42809, <<42808>>>>, <<42811, <<42810>>>>, <<42813, <<42812>>>>,
       <<42815, <<42814>>>>, <<42817, <<42816>>>>, <<42819, <<42818>>>>, <<42821, <<42820>>>>,
       <<42823, <<42822>>>>, <<42825, <<42824>>>>, <<42827, <<42826>>>>, <<42829, <<42828>>>>,
       <<42831, <<42830>>>>, <<42833, <<42832>>>>, <<42835, <<42834>>>>, <<42837, <<42836>>>>,
       <<42839, <<42838>>>>, <<42841, <<42840>>>>, <<42843, <<42842>>>>, <<42845, <<42844>>>>,
       <<42847, <<42846>>>>, <<42849, <<42848>>>>, <<42851, <<42850>>>>, <<42853, <<42852>>>>,
       <<42855, <<42854>>>>, <<42857, <<42856>>>>, <<42859, <<42858>>>>, <<42861, <<42860>>>>,
       <<42863, <<42862>>>>, <<42874, <<42873>>>>, <<42876, <<42875>>>>, <<42879, <<42878>>>>,
       <<42881, <<42880>>>>, <<42883, <<42882>>>>, <<42885, <<42884>>>>, <<42887, <<42886>>>>,
       <<42892, <<42891>>>>, <<42897, <<42896>>>>, <<42899, <<42898>>>>, <<42900, <<42948>>>>,
       <<42903, <<42902>>>>, <<42905, <<42904>>>>, <<42907, <<42906>>>>, <<42909, <<42908>>>>,
       <<42911, <<42910>>>>, <<42913, <<42912>>>>, <<42915, <<42914>>>>, <<42917, <<42916>>>>,
       <<42919, <<42918>>>>, <<42921, <<42920>>>>, <<42933, <<42932>>>>, <<42935, <<42934>>>>,
       <<42937, <<42936>>>>, <<42939, <<42938>>>>, <<42941, <<42940>>>>, <<42943, <<42942>>>>,
       <<42945, <<42944>>>>, <<42947, <<42946>>>>, <<42952, <<42951>>>>, <<42954, <<42953>>>>,
       <<42961, <<42960>>>>, <<42967, <<42966>>>>, <<42969, <<42968>>>>, <<42998, <<42997>>>>,
       <<43859, <<42931>>>>, <<43888, <<5024>>>>, <<43889, <<5025>>>>, <<43890, <<5026>>>>,
       <<43891, <<5027>>>>, <<43892, <<5028>>>>, <<43893, <<5029>>>>, <<43894, <<5030>>>>,
       <<43895, <<5031>>>>, <<43896, <<5032>>>>, <<43897, <<5033>>>>, <<43898, <<5034>>>>,
       <<43899, <<5035>>>>, <<43900, <<5036>>>>, <<43901, <<5037>>>>, <<43902, <<5038>>>>,
       <<43903, <<5039>>>>, <<43904, <<5040>>>>, <<43905, <<5041>>>>, <<43906, <<5042>>>>,
       <<43907, <<5043>>>>, <<43908, <<5044>>>>, <<43909, <<5045>>>>, <<43910, <<5046>>>>,
       <<43911, <<5047>>>>, <<43912, <<5048>>>>, <<43913, <<5049>>>>, <<43914, <<5050>>>>,
       <<43915, <<5051>>>>, <<43916, <<5052>>>>, <<43917, <<5053>>>>, <<43918, <<5054>>>>,
       <<43919, <<5055>>>>, <<43920, <<5056>>>>, <<43921, <<5057>>>>, <<43922, <<5058>>>>,
       <<43923, <<5059>>>>, <<43924, <<5060>>>>, <<43925, <<5061>>>>, <<43926, <<5062>>>>,
       <<43927, <<5063>>>>, <<43928, <<5064>>>>, <<43929, <<5065>>>>, <<43930, <<5066>>>>,
       <<43931, <<5067>>>>, <<43932, <<5068>>>>, <<43933, <<5069>>>>, <<43934, <<5070>>>>,
       <<43935, <<5071>>>>, <<43936, <<5072>>>>, <<43937, <<5073>>>>, <<43938, <<5074>>>>,
       <<43939, <<5075>>>>, <<43940, <<5076>>>>, <<43941, <<5077>>>>, <<43942, <<5078>>>>,
       <<43943, <<5079>>>>, <<43944, <<5080>>>>, <<43945, <<5081>>>>, <<43946, <<5082>>>>,
       <<43947, <<5083>>>>, <<43948, <<5084>>>>, <<43949, <<5085>>>>, <<43950, <<5086>>>>,
       <<43951, <<5087>>>>, <<43952, <<5088>>>>, <<43953, <<5089>>>>, <<43954, <<5090>>>>,
       <<43955, <<5091>>>>, <<43956, <<5092>>>>, <<43957, <<5093>>>>, <<43958, <<5094>>>>,
       <<43959, <<5095>>>>, <<43960, <<5096>>>>, <<43961, <<5097>>>>, <<43962, <<5098>>>>,
       <<43963, <<5099>>>>, <<43964, <<5100>>>>, <<43965, <<5101>>>>, <<43966, <<5102>>>>,
       <<43967, <<5103>>>>, <<64256, <<70, 70>>>>, <<64257, <<70, 73>>>>, <<64258, <<70, 76>>>>,
       <<64259, <<70, 70, 73>>>>, <<64260, <<70, 70, 76>>>>, <<64261, <<83, 84>>>>, <<64262, <<83, 84>>>>,
       <<64275, <<1348, 1350>>>>, <<64276, <<1348, 1333>>>>, <<64277, <<1348, 1339>>>>,
       <<64278, <<1358, 1350>>>>, <<64279, <<1348, 1341>>>>, <<65345, <<65313>>>>, <<65346, <<65314>>>>,
       <<65347, <<65315>>>>, <<65348, <<65316>>>>, <<65349, <<65317>>>>, <<65350, <<65318>>>>,
       <<65351, <<65319>>>>, <<65352, <<65320>>>>, <<65353, <<65321>>>>, <<65354, <<65322>>>>,
       <<65355, <<65323>>>>, <<65356, <<65324>>>>, <<65357, <<65325>>>>, <<65358, <<65326>>>>,
       <<65359, <<65327>>>>, <<65360, <<65328>>>>, <<65361, <<65329>>>>, <<65362, <<65330>>>>,
       <<65363, <<65331>>>>, <<65364, <<65332>>>>, <<65365, <<65333>>>>, <<65366, <<65334>>>>,
       <<65367, <<65335>>>>, <<65368, <<65336>>>>, <<65369, <<65337>>>>, <<65370, <<65338>>>>,
       <<66600, <<66560>>>>, <<66601, <<66561>>>>, <<66602, <<66562>>>>, <<66603, <<66563>>>>,
       <<66604, <<66564>>>>, <<66605, <<66565>>>>, <<66606, <<66566>>>>, <<66607, <<66567>>>>,
       <<66608, <<66568>>>>, <<66609, <<66569>>>>, <<66610, <<66570>>>>, <<66611, <<66571>>>>,
       <<66612, <<66572>>>>, <<66613, <<66573>>>>, <<66614, <<66574>>>>, <<66615, <<66575>>>>,
       <<66616, <<66576>>>>, <<66617, <<66577>>>>, <<66618, <<66578>>>>, <<66619, <<66579>>>>,
       <<66620, <<66580>>>>, <<66621, <<66581>>>>, <<66622, <<66582>>>>, <<66623, <<66583>>>>,
       <<66624, <<66584>>>>, <<66625, <<66585>>>>, <<66626, <<66586>>>>, <<66627, <<66587>>>>,
       <<66628, <<66588>>>>, <<66629, <<66589>>>>, <<66630, <<66590>>>>, <<66631, <<66591>>>>,
       <<66632, <<66592>>>>, <<66633, <<66593>>>>, <<66634, <<66594>>>>, <<66635, <<66595>>>>,
       <<66636, <<66596>>>>, <<66637, <<66597>>>>, <<66638, <<66598>>>>, <<66639, <<66599>>>>,
       <<66776, <<66736>>>>, <<66777, <<66737>>>>, <<66778, <<66738>>>>, <<66779, <<66739>>>>,
       <<66780, <<66740>>>>, <<66781, <<66741>>>>, <<66782, <<66742>>>>, <<66783, <<66743>>>>,
       <<66784, <<66744>>>>, <<66785, <<66745>>>>, <<66786, <<66746>>>>, <<66787, <<66747>>>>,
       <<66788, <<66748>>>>, <<66789, <<66749>>>>, <<66790, <<66750>>>>, <<66791, <<66751>>>>,
       <<66792, <<66752>>>>, <<66793, <<66753>>>>, <<66794, <<66754>>>>, <<66795, <<66755>>>>,
       <<66796, <<66756>>>>, <<66797, <<66757>>>>, <<66798, <<66758>>>>, <<66799, <<66759>>>>,
       <<66800, <<66760>>>>, <<66801, <<66761>>>>, <<66802, <<66762>>>>, <<66803, <<66763>>>>,
       <<66804, <<66764>>>>, <<66805, <<66765>>>>, <<66806, <<66766>>>>, <<66807, <<66767>>>>,
       <<66808, <<66768>>>>, <<66809, <<66769>>>>, <<66810, <<66770>>>>, <<66811, <<66771>>>>,
       <<66967, <<66928>>>>, <<66968, <<66929>>>>, <<66969, <<66930>>>>, <<66970, <<66931>>>>,
       <<66971, <<66932>>>>, <<66972, <<66933>>>>, <<66973, <<66934>>>>, <<66974, <<66935>>>>,
       <<66975, <<66936>>>>, <<66976, <<66937>>>>, <<66977, <<66938>>>>, <<66979, <<66940>>>>,
       <<66980, <<66941>>>>, <<66981, <<66942>>>>, <<66982, <<66943>>>>, <<66983, <<66944>>>>,
       <<66984, <<66945>>>>, <<66985, <<66946>>>>, <<66986, <<66947>>>>, <<66987, <<66948>>>>,
       <<66988, <<66949>>>>, <<66989, <<66950>>>>, <<66990, <<66951>>>>, <<66991, <<66952>>>>,
       <<66992, <<66953>>>>, <<66993, <<66954>>>>, <<66995, <<66956>>>>, <<66996, <<66957>>>>,
       <<66997, <<66958>>>>, <<66998, <<66959>>>>, <<66999, <<66960>>>>, <<67000, <<66961>>>>,
       <<67001, <<66962>>>>, <<67003, <<66964>>>>, <<67004, <<66965>>>>, <<68800, <<68736>>>>,
       <<68801, <<68737>>>>, <<68802, <<68738>>>>, <<68803, <<68739>>>>, <<68804, <<68740>>>>,
       <<68805, <<68741>>>>, <<68806, <<68742>>>>, <<68807, <<68743>>>>, <<68808, <<68744>>>>,
       <<68809, <<68745>>>>, <<68810, <<68746>>>>, <<68811, <<68747>>>>, <<68812, <<68748>>>>,
       <<68813, <<68749>>>>, <<68814, <<68750>>>>, <<68815, <<68751>>>>, <<68816, <<68752>>>>,
       <<68817, <<68753>>>>, <<68818, <<68754>>>>, <<68819, <<68755>>>>, <<68820, <<68756>>>>,
       <<68821, <<68757>>>>, <<68822, <<68758>>>>, <<68823, <<68759>>>>, <<68824, <<68760>>>>,
       <<68825, <<68761>>>>, <<68826, <<68762>>>>, <<68827, <<68763>>>>, <<68828, <<68764>>>>,
       <<68829, <<68765>>>>, <<68830, <<68766>>>>, <<68831, <<68767>>>>, <<68832, <<68768>>>>,
       <<68833, <<68769>>>>, <<68834, <<68770>>>>, <<68835, <<68771>>>>, <<68836, <<68772>>>>,
       <<68837, <<68773>>>>, <<68838, <<68774>>>>, <<68839, <<68775>>>>, <<68840, <<68776>>>>,
       <<68841, <<68777>>>>, <<68842, <<68778>>>>, <<68843, <<68779>>>>, <<68844, <<68780>>>>,
       <<68845, <<68781>>>>, <<68846, <<68782>>>>, <<68847, <<68783>>>>, <<68848, <<68784>>>>,
       <<68849, <<68785>>>>, <<68850, <<68786>>>>, <<71872, <<71840>>>>, <<71873, <<71841>>>>,
       <<71874, <<71842>>>>, <<71875, <<71843>>>>, <<71876, <<71844>>>>, <<71877, <<71845>>>>,
       <<71878, <<71846>>>>, <<71879, <<71847>>>>, <<71880, <<71848>>>>, <<71881, <<71849>>>>,
       <<71882, <<71850>>>>, <<71883, <<71851>>>>, <<71884, <<71852>>>>, <<71885, <<71853>>>>,
       <<71886, <<71854>>>>, <<71887, <<71855>>>>, <<71888, <<71856>>>>, <<71889, <<71857>>>>,
       <<71890, <<71858>>>>, <<71891, <<71859>>>>, <<71892, <<71860>>>>, <<71893, <<71861>>>>,
       <<71894, <<71862>>>>, <<71895, <<71863>>>>, <<71896, <<71864>>>>, <<71897, <<71865>>>>,
       <<71898, <<71866>>>>, <<71899, <<71867>>>>, <<71900, <<71868>>>>, <<71901, <<71869>>>>,
       <<71902, <<71870>>>>, <<71903, <<71871>>>>, <<93792, <<93760>>>>, <<93793, <<93761>>>>,
       <<93794, <<93762>>>>, <<93795, <<93763>>>>, <<93796, <<93764>>>>, <<93797, <<93765>>>>,
       <<93798, <<93766>>>>, <<93799, <<93767>>>>, <<93800, <<93768>>>>, <<93801, <<93769>>>>,
       <<93802, <<93770>>>>, <<93803, <<93771>>>>, <<93804, <<93772>>>>, <<93805, <<93773>>>>,
       <<93806, <<93774>>>>, <<93807, <<93775>>>>, <<93808, <<93776>>>>, <<93809, <<93777>>>>,
       <<93810, <<93778>>>>, <<93811, <<93779>>>>, <<93812, <<93780>>>>, <<93813, <<93781>>>>,
       <<93814, <<93782>>>>, <<93815, <<93783>>>>, <<93816, <<93784>>>>, <<93817, <<93785>>>>,
       <<93818, <<93786>>>>, <<93819, <<93787>>>>, <<93820, <<93788>>>>, <<93821, <<93789>>>>,
       <<93822, <<93790>>>>, <<93823, <<93791>>>>, <<125218, <<125184>>>>, <<125219, <<125185>>>>,
       <<125220, <<125186>>>>, <<125221, <<125187>>>>, <<125222, <<125188>>>>, <<125223, <<125189>>>>,
       <<125224, <<125190>>>>, <<125225, <<125191>>>>, <<125226, <<125192>>>>, <<125227, <<125193>>>>,
       <<125228, <<125194>>>>, <<125229, <<125195>>>>, <<125230, <<125196>>>>, <<125231, <<125197>>>>,
       <<125232, <<125198>>>>, <<125233, <<125199>>>>, <<125234, <<125200>>>>, <<125235, <<125201>>>>,
       <<125236, <<125202>>>>, <<125237, <<125203>>>>, <<125238, <<125204>>>>, <<125239, <<125205>>>>,
       <<125240, <<125206>>>>, <<125241, <<125207>>>>, <<125242, <<125208>>>>, <<125243, <<125209>>>>,
       <<125244, <<125210>>>>, <<125245, <<125211>>>>, <<125246, <<125212>>>>, <<125247, <<125213>>>>,
       <<125248, <<125214>>>>, <<125249, <<125215>>>>, <<125250, <<125216>>>>, <<125251, <<125217>>>> >>

\* str.isalnum(): the ranges <<first, last>> of the code points that have it
AlnumRanges ==
    << <<48, 57>>, <<65, 90>>, <<97, 122>>, <<170, 170>>, <<178, 179>>, <<181, 181>>, <<185, 186>>,
       <<188, 190>>, <<192, 214>>, <<216, 246>>, <<248, 705>>, <<710, 721>>, <<736, 740>>, <<748, 748>>,
       <<750, 750>>, <<880, 884>>, <<886, 887>>, <<890, 893>>, <<895, 895>>, <<902, 902>>, <<904, 906>>,
       <<908, 908>>, <<910, 929>>, <<931, 1013>>, <<1015, 1153>>, <<1162, 1327>>, <<1329, 1366>>,
       <<1369, 1369>>, <<1376, 1416>>, <<1488, 1514>>, <<1519, 1522>>, <<1568, 1610>>, <<1632, 1641>>,
       <<1646, 1647>>, <<1649, 1747>>, <<1749, 1749>>, <<1765, 1766>>, <<1774, 1788>>, <<1791, 1791>>,
       <<1808, 1808>>, <<1810, 1839>>, <<1869, 1957>>, <<1969, 1969>>, <<1984, 2026>>, <<2036, 2037>>,
       <<2042, 2042>>, <<2048, 2069>>, <<2074, 2074>>, <<2084, 2084>>, <<2088, 2088>>, <<2112, 2136>>,
       <<2144, 2154>>, <<2160, 2183>>, <<2185, 2190>>, <<2208, 2249>>, <<2308, 2361>>, <<2365, 2365>>,
       <<2384, 2384>>, <<2392, 2401>>, <<2406, 2415>>, <<2417, 2432>>, <<2437, 2444>>, <<2447, 2448>>,
       <<2451, 2472>>, <<2474, 2480>>, <<2482, 2482>>, <<2486, 2489>>, <<2493, 2493>>, <<2510, 2510>>,
       <<2524, 2525>>, <<2527, 2529>>, <<2534, 2545>>, <<2548, 2553>>, <<2556, 2556>>, <<2565, 2570>>,
       <<2575, 2576>>, <<2579, 2600>>, <<2602, 2608>>, <<2610, 2611>>, <<2613, 2614>>, <<2616, 2617>>,
       <<2649, 2652>>, <<2654, 2654>>, <<2662, 2671>>, <<2674, 2676>>, <<2693, 2701>>, <<2703, 2705>>,
       <<2707, 2728>>, <<2730, 2736>>, <<2738, 2739>>, <<2741, 2745>>, <<2749, 2749>>, <<2768, 2768>>,
       <<2784, 2785>>, <<2790, 2799>>, <<2809, 2809>>, <<2821, 2828>>, <<2831, 2832>>, <<2835, 2856>>,
       <<2858, 2864>>, <<2866, 2867>>, <<2869, 2873>>, <<2877, 2877>>, <<2908, 2909>>, <<2911, 2913>>,
       <<2918, 2927>>, <<2929, 2935>>, <<2947, 2947>>, <<2949, 2954>>, <<2958, 2960>>, <<2962, 2965>>,
       <<2969, 2970>>, <<2972, 2972>>, <<2974, 2975>>, <<2979, 2980>>, <<2984, 2986>>, <<2990, 3001>>,
       <<3024, 3024>>, <<3046, 3058>>, <<3077, 3084>>, <<3086, 3088>>, <<3090, 3112>>, <<3114, 3129>>,
       <<3133, 3133>>, <<3160, 3162>>, <<3165, 3165>>, <<3168, 3169>>, <<3174, 3183>>, <<3192, 3198>>,
       <<3200, 3200>>, <<3205, 3212>>, <<3214, 3216>>, <<3218, 3240>>, <<3242, 3251>>, <<3253, 3257>>,
       <<3261, 3261>>, <<3293, 3294>>, <<3296, 3297>>, <<3302, 3311>>, <<3313, 3314>>, <<3332, 3340>>,
       <<3342, 3344>>, <<3346, 3386>>, <<3389, 3389>>, <<3406, 3406>>, <<3412, 3414>>, <<3416, 3425>>,
       <<3430, 3448>>, <<3450, 3455>>, <<3461, 3478>>, <<3482, 3505>>, <<3507, 3515>>, <<3517, 3517>>,
       <<3520, 3526>>, <<3558, 3567>>, <<3585, 3632>>, <<3634, 3635>>, <<3648, 3654>>, <<3664, 3673>>,
       <<3713, 3714>>, <<3716, 3716>>, <<3718, 3722>>, <<3724, 3747>>, <<3749, 3749>>, <<3751, 3760>>,
       <<3762, 3763>>, <<3773, 3773>>, <<3776, 3780>>, <<3782, 3782>>, <<3792, 3801>>, <<3804, 3807>>,
       <<3840, 3840>>, <<3872, 3891>>, <<3904, 3911>>, <<3913, 3948>>, <<3976, 3980>>, <<4096, 4138>>,
       <<4159, 4169>>, <<4176, 4181>>, <<4186, 4189>>, <<4193, 4193>>, <<4197, 4198>>, <<4206, 4208>>,
       <<4213, 4225>>, <<4238, 4238>>, <<4240, 4249>>, <<4256, 4293>>, <<4295, 4295>>, <<4301, 4301>>,
       <<4304, 4346>>, <<4348, 4680>>, <<4682, 4685>>, <<4688, 4694>>, <<4696, 4696>>, <<4698, 4701>>,
       <<4704, 4744>>, <<4746, 4749>>, <<4752, 4784>>, <<4786, 4789>>, <<4792, 4798>>, <<4800, 4800>>,
       <<4802, 4805>>, <<4808, 4822>>, <<4824, 4880>>, <<4882, 4885>>, <<4888, 4954>>, <<4969, 4988>>,
       <<4992, 5007>>, <<5024, 5109>>, <<5112, 5117>>, <<5121, 5740>>, <<5743, 5759>>, <<5761, 5786>>,
       <<5792, 5866>>, <<5870, 5880>>, <<5888, 5905>>, <<5919, 5937>>, <<5952, 5969>>, <<5984, 5996>>,
       <<5998, 6000>>, <<6016, 6067>>, <<6103, 6103>>, <<6108, 6108>>, <<6112, 6121>>, <<6128, 6137>>,
       <<6160, 6169>>, <<6176, 6264>>, <<6272, 6276>>, <<6279, 6312>>, <<6314, 6314>>, <<6320, 6389>>,
       <<6400, 6430>>, <<6470, 6509>>, <<6512, 6516>>, <<6528, 6571>>, <<6576, 6601>>, <<6608, 6618>>,
       <<6656, 6678>>, <<6688, 6740>>, <<6784, 6793>>, <<6800, 6809>>, <<6823, 6823>>, <<6917, 6963>>,
       <<6981, 6988>>, <<6992, 7001>>, <<7043, 7072>>, <<7086, 7141>>, <<7168, 7203>>, <<7232, 7241>>,
       <<7245, 7293>>, <<7296, 7304>>, <<7312, 7354>>, <<7357, 7359>>, <<7401, 7404>>, <<7406, 7411>>,
       <<7413, 7414>>, <<7418, 7418>>, <<7424, 7615>>, <<7680, 7957>>, <<7960, 7965>>, <<7968, 8005>>,
       <<8008, 8013>>, <<8016, 8023>>, <<8025, 8025>>, <<8027, 8027>>, <<8029, 8029>>, <<8031, 8061>>,
       <<8064, 8116>>, <<8118, 8124>>, <<8126, 8126>>, <<8130, 8132>>, <<8134, 8140>>, <<8144, 8147>>,
       <<8150, 8155>>, <<8160, 8172>>, <<8178, 8180>>, <<8182, 8188>>, <<8304, 8305>>, <<8308, 8313>>,
       <<8319, 8329>>, <<8336, 8348>>, <<8450, 8450>>, <<8455, 8455>>, <<8458, 8467>>, <<8469, 8469>>,
       <<8473, 8477>>, <<8484, 8484>>, <<8486, 8486>>, <<8488, 8488>>, <<8490, 8493>>, <<8495, 8505>>,
       <<8508, 8511>>, <<8517, 8521>>, <<8526, 8526>>, <<8528, 8585>>, <<9312, 9371>>, <<9450, 9471>>,
       <<10102, 10131>>, <<11264, 11492>>, <<11499, 11502>>, <<11506, 11507>>, <<11517, 11517>>,
       <<11520, 11557>>, <<11559, 11559>>, <<11565, 11565>>, <<11568, 11623>>, <<11631, 11631>>,
       <<11648, 11670>>, <<11680, 11686>>, <<11688, 11694>>, <<11696, 11702>>, <<11704, 11710>>,
       <<11712, 11718>>, <<11720, 11726>>, <<11728, 11734>>, <<11736, 11742>>, <<11823, 11823>>,
       <<12293, 12295>>, <<12321, 12329>>, <<12337, 12341>>, <<12344, 12348>>, <<12353, 12438>>,
       <<12445, 12447>>, <<12449, 12538>>, <<12540, 12543>>, <<12549, 12591>>, <<12593, 12686>>,
       <<12690, 12693>>, <<12704, 12735>>, <<12784, 12799>>, <<12832, 12841>>, <<12872, 12879>>,
       <<12881, 12895>>, <<12928, 12937>>, <<12977, 12991>>, <<13312, 19903>>, <<19968, 42124>>,
       <<42192, 42237>>, <<42240, 42508>>, <<42512, 42539>>, <<42560, 42606>>, <<42623, 42653>>,
       <<42656, 42735>>, <<42775, 42783>>, <<42786, 42888>>, <<42891, 42954>>, <<42960, 42961>>,
       <<42963, 42963>>, <<42965, 42969>>, <<42994, 43009>>, <<43011, 43013>>, <<43015, 43018>>,
       <<43020, 43042>>, <<43056, 43061>>, <<43072, 43123>>, <<43138, 43187>>, <<43216, 43225>>,
       <<43250, 43255>>, <<43259, 43259>>, <<43261, 43262>>, <<43264, 43301>>, <<43312, 43334>>,
       <<43360, 43388>>, <<43396, 43442>>, <<43471, 43481>>, <<43488, 43492>>, <<43494, 43518>>,
       <<43520, 43560>>, <<43584, 43586>>, <<43588, 43595>>, <<43600, 43609>>, <<43616, 43638>>,
       <<43642, 43642>>, <<43646, 43695>>, <<43697, 43697>>, <<43701, 43702>>, <<43705, 43709>>,
       <<43712, 43712>>, <<43714, 43714>>, <<43739, 43741>>, <<43744, 43754>>, <<43762, 43764>>,
       <<43777, 43782>>, <<43785, 43790>>, <<43793, 43798>>, <<43808, 43814>>, <<43816, 43822>>,
       <<43824, 43866>>, <<43868, 43881>>, <<43888, 44002>>, <<44016, 44025>>, <<44032, 55203>>,
       <<55216, 55238>>, <<55243, 55291>>, <<63744, 64109>>, <<64112, 64217>>, <<64256, 64262>>,
       <<64275, 64279>>, <<64285, 64285>>, <<64287, 64296>>, <<64298, 64310>>, <<64312, 64316>>,
       <<64318, 64318>>, <<64320, 64321>>, <<64323, 64324>>, <<64326, 64433>>, <<64467, 64829>>,
       <<64848, 64911>>, <<64914, 64967>>, <<65008, 65019>>, <<65136, 65140>>, <<65142, 65276>>,
       <<65296, 65305>>, <<65313, 65338>>, <<65345, 65370>>, <<65382, 65470>>, <<65474, 65479>>,
       <<65482, 65487>>, <<65490, 65495>>, <<65498, 65500>>, <<65536, 65547>>, <<65549, 65574>>,
       <<65576, 65594>>, <<65596, 65597>>, <<65599, 65613>>, <<65616, 65629>>, <<65664, 65786>>,
       <<65799, 65843>>, <<65856, 65912>>, <<65930, 65931>>, <<66176, 66204>>, <<66208, 66256>>,
       <<66273, 66299>>, <<66304, 66339>>, <<66349, 66378>>, <<66384, 66421>>, <<66432, 66461>>,
       <<66464, 66499>>, <<66504, 66511>>, <<66513, 66517>>, <<66560, 66717>>, <<66720, 66729>>,
       <<66736, 66771>>, <<66776, 66811>>, <<66816, 66855>>, <<66864, 66915>>, <<66928, 66938>>,
       <<66940, 66954>>, <<66956, 66962>>, <<66964, 66965>>, <<66967, 66977>>, <<66979, 66993>>,
       <<66995, 67001>>, <<67003, 67004>>, <<67072, 67382>>, <<67392, 67413>>, <<67424, 67431>>,
       <<67456, 67461>>, <<67463, 67504>>, <<67506, 67514>>, <<67584, 67589>>, <<67592, 67592>>,
       <<67594, 67637>>, <<67639, 67640>>, <<67644, 67644>>, <<67647, 67669>>, <<67672, 67702>>,
       <<67705, 67742>>, <<67751, 67759>>, <<67808, 67826>>, <<67828, 67829>>, <<67835, 67867>>,
       <<67872, 67897>>, <<67968, 68023>>, <<68028, 68047>>, <<68050, 68096>>, <<68112, 68115>>,
       <<68117, 68119>>, <<68121, 68149>>, <<68160, 68168>>, <<68192, 68222>>, <<68224, 68255>>,
       <<68288, 68295>>, <<68297, 68324>>, <<68331, 68335>>, <<68352, 68405>>, <<68416, 68437>>,
       <<68440, 68466>>, <<68472, 68497>>, <<68521, 68527>>, <<68608, 68680>>, <<68736, 68786>>,
       <<68800, 68850>>, <<68858, 68899>>, <<68912, 68921>>, <<69216, 69246>>, <<69248, 69289>>,
       <<69296, 69297>>, <<69376, 69415>>, <<69424, 69445>>, <<69457, 69460>>, <<69488, 69505>>,
       <<69552, 69579>>, <<69600, 69622>>, <<69635, 69687>>, <<69714, 69743>>, <<69745, 69746>>,
       <<69749, 69749>>, <<69763, 69807>>, <<69840, 69864>>, <<69872, 69881>>, <<69891, 69926>>,
       <<69942, 69951>>, <<69956, 69956>>, <<69959, 69959>>, <<69968, 70002>>, <<70006, 70006>>,
       <<70019, 70066>>, <<70081, 70084>>, <<70096, 70106>>, <<70108, 70108>>, <<70113, 70132>>,
       <<70144, 70161>>, <<70163, 70187>>, <<70272, 70278>>, <<70280, 70280>>, <<70282, 70285>>,
       <<70287, 70301>>, <<70303, 70312>>, <<70320, 70366>>, <<70384, 70393>>, <<70405, 70412>>,
       <<70415, 70416>>, <<70419, 70440>>, <<70442, 70448>>, <<70450, 70451>>, <<70453, 70457>>,
       <<70461, 70461>>, <<70480, 70480>>, <<70493, 70497>>, <<70656, 70708>>, <<70727, 70730>>,
       <<70736, 70745>>, <<70751, 70753>>, <<70784, 70831>>, <<70852, 70853>>, <<70855, 70855>>,
       <<70864, 70873>>, <<71040, 71086>>, <<71128, 71131>>, <<71168, 71215>>, <<71236, 71236>>,
       <<71248, 71257>>, <<71296, 71338>>, <<71352, 71352>>, <<71360, 71369>>, <<71424, 71450>>,
       <<71472, 71483>>, <<71488, 71494>>, <<71680, 71723>>, <<71840, 71922>>, <<71935, 71942>>,
       <<71945, 71945>>, <<71948, 71955>>, <<71957, 71958>>, <<71960, 71983>>, <<71999, 71999>>,
       <<72001, 72001>>, <<72016, 72025>>, <<72096, 72103>>, <<72106, 72144>>, <<72161, 72161>>,
       <<72163, 72163>>, <<72192, 72192>>, <<72203, 72242>>, <<72250, 72250>>, <<72272, 72272>>,
       <<72284, 72329>>, <<72349, 72349>>, <<72368, 72440>>, <<72704, 72712>>, <<72714, 72750>>,
       <<72768, 72768>>, <<72784, 72812>>, <<72818, 72847>>, <<72960, 72966>>, <<72968, 72969>>,
       <<72971, 73008>>, <<73030, 73030>>, <<73040, 73049>>, <<73056, 73061>>, <<73063, 73064>>,
       <<73066, 73097>>, <<73112, 73112>>, <<73120, 73129>>, <<73440, 73458>>, <<73648, 73648>>,
       <<73664, 73684>>, <<73728, 74649>>, <<74752, 74862>>, <<74880, 75075>>, <<77712, 77808>>,
       <<77824, 78894>>, <<82944, 83526>>, <<92160, 92728>>, <<92736, 92766>>, <<92768, 92777>>,
       <<92784, 92862>>, <<92864, 92873>>, <<92880, 92909>>, <<92928, 92975>>, <<92992, 92995>>,
       <<93008, 93017>>, <<93019, 93025>>, <<93027, 93047>>, <<93053, 93071>>, <<93760, 93846>>,
       <<93952, 94026>>, <<94032, 94032>>, <<94099, 94111>>, <<94176, 94177>>, <<94179, 94179>>,
       <<94208, 100343>>, <<100352, 101589>>, <<101632, 101640>>, <<110576, 110579>>, <<110581, 110587>>,
       <<110589, 110590>>, <<110592, 110882>>, <<110928, 110930>>, <<110948, 110951>>, <<110960, 111355>>,
       <<113664, 113770>>, <<113776, 113788>>, <<113792, 113800>>, <<113808, 113817>>, <<119520, 119539>>,
       <<119648, 119672>>, <<119808, 119892>>, <<119894, 119964>>, <<119966, 119967>>, <<119970, 119970>>,
       <<119973, 119974>>, <<119977, 119980>>, <<119982, 119993>>, <<119995, 119995>>, <<119997, 120003>>,
       <<120005, 120069>>, <<120071, 120074>>, <<120077, 120084>>, <<120086, 120092>>, <<120094, 120121>>,
       <<120123, 120126>>, <<120128, 120132>>, <<120134, 120134>>, <<120138, 120144>>, <<120146, 120485>>,
       <<120488, 120512>>, <<120514, 120538>>, <<120540, 120570>>, <<120572, 120596>>, <<120598, 120628>>,
       <<120630, 120654>>, <<120656, 120686>>, <<120688, 120712>>, <<120714, 120744>>, <<120746, 120770>>,
       <<120772, 120779>>, <<120782, 120831>>, <<122624, 122654>>, <<123136, 123180>>, <<123191, 123197>>,
       <<123200, 123209>>, <<123214, 123214>>, <<123536, 123565>>, <<123584, 123627>>, <<123632, 123641>>,
       <<124896, 124902>>, <<124904, 124907>>, <<124909, 124910>>, <<124912, 124926>>, <<124928, 125124>>,
       <<125127, 125135>>, <<125184, 125251>>, <<125259, 125259>>, <<125264, 125273>>, <<126065, 126123>>,
       <<126125, 126127>>, <<126129, 126132>>, <<126209, 126253>>, <<126255, 126269>>, <<126464, 126467>>,
       <<126469, 126495>>, <<126497, 126498>>, <<126500, 126500>>, <<126503, 126503>>, <<126505, 126514>>,
       <<126516, 126519>>, <<126521, 126521>>, <<126523, 126523>>, <<126530, 126530>>, <<126535, 126535>>,
       <<126537, 126537>>, <<126539, 126539>>, <<126541, 126543>>, <<126545, 126546>>, <<126548, 126548>>,
       <<126551, 126551>>, <<126553, 126553>>, <<126555, 126555>>, <<126557, 126557>>, <<126559, 126559>>,
       <<126561, 126562>>, <<126564, 126564>>, <<126567, 126570>>, <<126572, 126578>>, <<126580, 126583>>,
       <<126585, 126588>>, <<126590, 126590>>, <<126592, 126601>>, <<126603, 126619>>, <<126625, 126627>>,
       <<126629, 126633>>, <<126635, 126651>>, <<127232, 127244>>, <<130032, 130041>>, <<131072, 173791>>,
       <<173824, 177976>>, <<177984, 178205>>, <<178208, 183969>>, <<183984, 191456>>, <<194560, 195101>>,
       <<196608, 201546>> >>

\* The decimal digits (the \d of a str pattern, the digits int() reads): their
\* ranges <<first, last>>; a range starts with a zero and the digits follow in
\* order, ten by ten
DecimalRanges ==
    << <<48, 57>>, <<1632, 1641>>, <<1776, 1785>>, <<1984, 1993>>, <<2406, 2415>>, <<2534, 2543>>,
       <<2662, 2671>>, <<2790, 2799>>, <<2918, 2927>>, <<3046, 3055>>, <<3174, 3183>>, <<3302, 3311>>,
       <<3430, 3439>>, <<3558, 3567>>, <<3664, 3673>>, <<3792, 3801>>, <<3872, 3881>>, <<4160, 4169>>,
       <<4240, 4249>>, <<6112, 6121>>, <<6160, 6169>>, <<6470, 6479>>, <<6608, 6617>>, <<6784, 6793>>,
       <<6800, 6809>>, <<6992, 7001>>, <<7088, 7097>>, <<7232, 7241>>, <<7248, 7257>>, <<42528, 42537>>,
       <<43216, 43225>>, <<43264, 43273>>, <<43472, 43481>>, <<43504, 43513>>, <<43600, 43609>>,
       <<44016, 44025>>, <<65296, 65305>>, <<66720, 66729>>, <<68912, 68921>>, <<69734, 69743>>,
       <<69872, 69881>>, <<69942, 69951>>, <<70096, 70105>>, <<70384, 70393>>, <<70736, 70745>>,
       <<70864, 70873>>, <<71248, 71257>>, <<71360, 71369>>, <<71472, 71481>>, <<71904, 71913>>,
       <<72016, 72025>>, <<72784, 72793>>, <<73040, 73049>>, <<73120, 73129>>, <<92768, 92777>>,
       <<92864, 92873>>, <<93008, 93017>>, <<120782, 120831>>, <<123200, 123209>>, <<123632, 123641>>,
       <<125264, 125273>>, <<130032, 130041>> >>

\* GB18030, two-byte codes: the code point of lead byte 129..254 and trail byte
\* 64..126, 128..254, lead after lead and trail after trail
GbTwoByte ==
    << 19970, 19972, 19973, 19974, 19983, 19986, 19991, 19999, 20000, 20001, 20003, 20006, 20009, 20014,
       20015, 20017, 20019, 20021, 20023, 20028, 20032, 20033, 20034, 20036, 20038, 20042, 20049, 20053,
       20055, 20058, 20059, 20066, 20067, 20068, 20069, 20071, 20072, 20074, 20075, 20076, 20077, 20078,
       20079, 20082, 20084, 20085, 20086, 20087, 20088, 20089, 20090, 20091, 20092, 20093, 20095, 20096,
       20097, 20098, 20099, 20100, 20101, 20103, 20106, 20112, 20118, 20119, 20121, 20124, 20125, 20126,
       20131, 20138, 20143, 20144, 20145, 20148, 20150, 20151, 20152, 20153, 20156, 20157, 20158, 20168,
       20172, 20175, 20176, 20178, 20186, 20187, 20188, 20192, 20194, 20198, 20199, 20201, 20205, 20206,
       20207, 20209, 20212, 20216, 20217, 20218, 20220, 20222, 20224, 20226, 20227, 20228, 20229, 20230,
       20231, 20232, 20235, 20236, 20242, 20243, 20244, 20245, 20246, 20252, 20253, 20257, 20259, 20264,
       20265, 20268, 20269, 20270, 20273, 20275, 20277, 20279, 20281, 20283, 20286, 20287, 20288, 20289,
       20290, 20292, 20293, 20295, 20296, 20297, 20298, 20299, 20300, 20306, 20308, 20310, 20321, 20322,
       20326, 20328, 20330, 20331, 20333, 20334, 20337, 20338, 20341, 20343, 20344, 20345, 20346, 20349,
       20352, 20353, 20354, 20357, 20358, 20359, 20362, 20364, 20366, 20368, 20370, 20371, 20373, 20374,
       20376, 20377, 20378, 20380, 20382, 20383, 20385, 20386, 20388, 20395, 20397, 20400, 20401, 20402,
       20403, 20404, 20406, 20407, 20408, 20409, 20410, 20411, 20412, 20413, 20414, 20416, 20417, 20418,
       20422, 20423, 20424, 20425, 20427, 20428, 20429, 20434, 20435, 20436, 20437, 20438, 20441, 20443,
       20448, 20450, 20452, 20453, 20455, 20459, 20460, 20464, 20466, 20468, 20469, 20470, 20471, 20473,
       20475, 20476, 20477, 20479, 20480, 20481, 20482, 20483, 20484, 20485, 20486, 20487, 20488, 20489,
       20490, 20491, 20494, 20496, 20497, 20499, 20501, 20502, 20503, 20507, 20509, 20510, 20512, 20514,
       20515, 20516, 20519, 20523, 20527, 20528, 20529, 20530, 20531, 20532, 20533, 20534, 20535, 20536,
       20537, 20539, 20541, 20543, 20544, 20545, 20546, 20548, 20549, 20550, 20553, 20554, 20555, 20557,
       20560, 20561, 20562, 20563, 20564, 20566, 20567, 20568, 20569, 20571, 20573, 20574, 20575, 20576,
       20577, 20578, 20579, 20580, 20582, 20583, 20584, 20585, 20586, 20587, 20589, 20590, 20591, 20592,
       20593, 20594, 20595, 20596, 20597, 20600, 20601, 20602, 20604, 20605, 20609, 20610, 20611, 20612,
       20614, 20615, 20617, 20618, 20619, 20620, 20622, 20623, 20624, 20625, 20626, 20627, 20628, 20629,
       20630, 20631, 20632, 20633, 20634, 20635, 20636, 20637, 20638, 20639, 20640, 20641, 20642, 20644,
       20646, 20650, 20651, 20653, 20654, 20655, 20656, 20657, 20659, 20660, 20661, 20662, 20663, 20664,
       20665, 20668, 20669, 20670, 20671, 20672, 20673, 20674, 20675, 20676, 20677, 20678, 20679, 20680,
       20681, 20682, 20683, 20684, 20685, 20686, 20688, 20689, 20690, 20691, 20692, 20693, 20695, 20696,
       20697, 20699, 20700, 20701, 20702, 20703, 20704, 20705, 20706, 20707, 20708, 20709, 20712, 20713,
       20714, 20715, 20719, 20720, 20721, 20722, 20724, 20726, 20727, 20728, 20729, 20730, 20732, 20733,
       20734, 20735, 20736, 20737, 20738, 20739, 20740, 20741, 20744, 20745, 20746, 20748, 20749, 20750,
       20751, 20752, 20753, 20755, 20756, 20757, 20758, 20759, 20760, 20761, 20762, 20763, 20764, 20765,
       20766, 20767, 20768, 20770, 20771, 20772, 20773, 20774, 20775, 20776, 20777, 20778, 20779, 20780,
       20781, 20782, 20783, 20784, 20785, 20786, 20787, 20788, 20789, 20790, 20791, 20792, 20793, 20794,
       20795, 20796, 20797, 20798, 20802, 20807, 20810, 20812, 20814, 20815, 20816, 20818, 20819, 20823,
       20824, 20825, 20827, 20829, 20830, 20831, 20832, 20833, 20835, 20836, 20838, 20839, 20841, 20842,
       20847, 20850, 20858, 20862, 20863, 20867, 20868, 20870, 20871, 20874, 20875, 20878, 20879, 20880,
       20881, 20883, 20884, 20888, 20890, 20893, 20894, 20895, 20897, 20899, 20902, 20903, 20904, 20905,
       20906, 20909, 20910, 20916, 20920, 20921, 20922, 20926, 20927, 20929, 20930, 20931, 20933, 20936,
       20938, 20941, 20942, 20944, 20946, 20947, 20948, 20949, 20950, 20951, 20952, 20953, 20954, 20956,
       20958, 20959, 20962, 20963, 20965, 20966, 20967, 20968, 20969, 20970, 20972, 20974, 20977, 20978,
       20980, 20983, 20990, 20996, 20997, 21001, 21003, 21004, 21007, 21008, 21011, 21012, 21013, 21020,
       21022, 21023, 21025, 21026, 21027, 21029, 21030, 21031, 21034, 21036, 21039, 21041, 21042, 21044,
       21045, 21052, 21054, 21060, 21061, 21062, 21063, 21064, 21065, 21067, 21070, 21071, 21074, 21075,
       21077, 21079, 21080, 21081, 21082, 21083, 21085, 21087, 21088, 21090, 21091, 21092, 21094, 21096,
       21099, 21100, 21101, 21102, 21104, 21105, 21107, 21108, 21109, 21110, 21111, 21112, 21113, 21114,
       21115, 21116, 21118, 21120, 21123, 21124, 21125, 21126, 21127, 21129, 21130, 21131, 21132, 21133,
       21134, 21135, 21137, 21138, 21140, 21141, 21142, 21143, 21144, 21145, 21146, 21148, 21156, 21157,
       21158, 21159, 21166, 21167, 21168, 21172, 21173, 21174, 21175, 21176, 21177, 21178, 21179, 21180,
       21181, 21184, 21185, 21186, 21188, 21189, 21190, 21192, 21194, 21196, 21197, 21198, 21199, 21201,
       21203, 21204, 21205, 21207, 21209, 21210, 21211, 21212, 21213, 21214, 21216, 21217, 21218, 21219,
       21221, 21222, 21223, 21224, 21225, 21226, 21227, 21228, 21229, 21230, 21231, 21233, 21234, 21235,
       21236, 21237, 21238, 21239, 21240, 21243, 21244, 21245, 21249, 21250, 21251, 21252, 21255, 21257,
       21258, 21259, 21260, 21262, 21265, 21266, 21267, 21268, 21272, 21275, 21276, 21278, 21279, 21282,
       21284, 21285, 21287, 21288, 21289, 21291, 21292, 21293, 21295, 21296, 21297, 21298, 21299, 21300,
       21301, 21302, 21303, 21304, 21308, 21309, 21312, 21314, 21316, 21318, 21323, 21324, 21325, 21328,
       21332, 21336, 21337, 21339, 21341, 21349, 21352, 21354, 21356, 21357, 21362, 21366, 21369, 21371,
       21372, 21373, 21374, 21376, 21377, 21379, 21383, 21384, 21386, 21390, 21391, 21392, 21393, 21394,
       21395, 21396, 21398, 21399, 21401, 21403, 21404, 21406, 21408, 21409, 21412, 21415, 21418, 21419,
       21420, 21421, 21423, 21424, 21425, 21426, 21427, 21428, 21429, 21431, 21432, 21433, 21434, 21436,
       21437, 21438, 21440, 21443, 21444, 21445, 21446, 21447, 21454, 21455, 21456, 21458, 21459, 21461,
       21466, 21468, 21469, 21470, 21473, 21474, 21479, 21492, 21498, 21502, 21503, 21504, 21506, 21509,
       21511, 21515, 21524, 21528, 21529, 21530, 21532, 21538, 21540, 21541, 21546, 21552, 21555, 21558,
       21559, 21562, 21565, 21567, 21569, 21570, 21572, 21573, 21575, 21577, 21580, 21581, 21582, 21583,
       21585, 21594, 21597, 21598, 21599, 21600, 21601, 21603, 21605, 21607, 21609, 21610, 21611, 21612,
       21613, 21614, 21615, 21616, 21620, 21625, 21626, 21630, 21631, 21633, 21635, 21637, 21639, 21640,
       21641, 21642, 21645, 21649, 21651, 21655, 21656, 21660, 21662, 21663, 21664, 21665, 21666, 21669,
       21678, 21680, 21682, 21685, 21686, 21687, 21689, 21690, 21692, 21694, 21699, 21701, 21706, 21707,
       21718, 21720, 21723, 21728, 21729, 21730, 21731, 21732, 21739, 21740, 21743, 21744, 21745, 21748,
       21749, 21750, 21751, 21752, 21753, 21755, 21758, 21760, 21762, 21763, 21764, 21765, 21768, 21770,
       21771, 21772, 21773, 21774, 21778, 21779, 21781, 21782, 21783, 21784, 21785, 21786, 21788, 21789,
       21790, 21791, 21793, 21797, 21798, 21800, 21801, 21803, 21805, 21810, 21812, 21813, 21814, 21816,
       21817, 21818, 21819, 21821, 21824, 21826, 21829, 21831, 21832, 21835, 21836, 21837, 21838, 21839,
       21841, 21842, 21843, 21844, 21847, 21848, 21849, 21850, 21851, 21853, 21854, 21855, 21856, 21858,
       21859, 21864, 21865, 21867, 21871, 21872, 21873, 21874, 21875, 21876, 21881, 21882, 21885, 21887,
       21893, 21894, 21900, 21901, 21902, 21904, 21906, 21907, 21909, 21910, 21911, 21914, 21915, 21918,
       21920, 21921, 21922, 21923, 21924, 21925, 21926, 21928, 21929, 21930, 21931, 21932, 21933, 21934,
       21935, 21936, 21938, 21940, 21942, 21944, 21946, 21948, 21951, 21952, 21953, 21954, 21955, 21958,
       21959, 21960, 21962, 21963, 21966, 21967, 21968, 21973, 21975, 21976, 21977, 21978, 21979, 21982,
       21984, 21986, 21991, 21993, 21997, 21998, 22000, 22001, 22004, 22006, 22008, 22009, 22010, 22011,
       22012, 22015, 22018, 22019, 22020, 22021, 22022, 22023, 22026, 22027, 22029, 22032, 22033, 22034,
       22035, 22036, 22037, 22038, 22039, 22041, 22042, 22044, 22045, 22048, 22049, 22050, 22053, 22054,
       22056, 22057, 22058, 22059, 22062, 22063, 22064, 22067, 22069, 22071, 22072, 22074, 22076, 22077,
       22078, 22080, 22081, 22082, 22083, 22084, 22085, 22086, 22087, 22088, 22089, 22090, 22091, 22095,
       22096, 22097, 22098, 22099, 22101, 22102, 22106, 22107, 22109, 22110, 22111, 22112, 22113, 22115,
       22117, 22118, 22119, 22125, 22126, 22127, 22128, 22130, 22131, 22132, 22133, 22135, 22136, 22137,
       22138, 22141, 22142, 22143, 22144, 22145, 22146, 22147, 22148, 22151, 22152, 22153, 22154, 22155,
       22156, 22157, 22160, 22161, 22162, 22164, 22165, 22166, 22167, 22168, 22169, 22170, 22171, 22172,
       22173, 22174, 22175, 22176, 22177, 22178, 22180, 22181, 22182, 22183, 22184, 22185, 22186, 22187,
       22188, 22189, 22190, 22192, 22193, 22194, 22195, 22196, 22197, 22198, 22200, 22201, 22202, 22203,
       22205, 22206, 22207, 22208, 22209, 22210, 22211, 22212, 22213, 22214, 22215, 22216, 22217, 22219,
       22220, 22221, 22222, 22223, 22224, 22225, 22226, 22227, 22229, 22230, 22232, 22233, 22236, 22243,
       22245, 22246, 22247, 22248, 22249, 22250, 22252, 22254, 22255, 22258, 22259, 22262, 22263, 22264,
       22267, 22268, 22272, 22273, 22274, 22277, 22279, 22283, 22284, 22285, 22286, 22287, 22288, 22289,
       22290, 22291, 22292, 22293, 22294, 22295, 22296, 22297, 22298, 22299, 22301, 22302, 22304, 22305,
       22306, 22308, 22309, 22310, 22311, 22315, 22321, 22322, 22324, 22325, 22326, 22327, 22328, 22332,
       22333, 22335, 22337, 22339, 22340, 22341, 22342, 22344, 22345, 22347, 22354, 22355, 22356, 22357,
       22358, 22360, 22361, 22370, 22371, 22373, 22375, 22380, 22382, 22384, 22385, 22386, 22388, 22389,
       22392, 22393, 22394, 22397, 22398, 22399, 22400, 22401, 22407, 22408, 22409, 22410, 22413, 22414,
       22415, 22416, 22417, 22420, 22421, 22422, 22423, 22424, 22425, 22426, 22428, 22429, 22430, 22431,
       22437, 22440, 22442, 22444, 22447, 22448, 22449, 22451, 22453, 22454, 22455, 22457, 22458, 22459,
       22460, 22461, 22462, 22463, 22464, 22465, 22468, 22469, 22470, 22471, 22472, 22473, 22474, 22476,
       22477, 22480, 22481, 22483, 22486, 22487, 22491, 22492, 22494, 22497, 22498, 22499, 22501, 22502,
       22503, 22504, 22505, 22506, 22507, 22508, 22510, 22512, 22513, 22514, 22515, 22517, 22518, 22519,
       22523, 22524, 22526, 22527, 22529, 22531, 22532, 22533, 22536, 22537, 22538, 22540, 22542, 22543,
       22544, 22546, 22547, 22548, 22550, 22551, 22552, 22554, 22555, 22556, 22557, 22559, 22562, 22563,
       22565, 22566, 22567, 22568, 22569, 22571, 22572, 22573, 22574, 22575, 22577, 22578, 22579, 22580,
       22582, 22583, 22584, 22585, 22586, 22587, 22588, 22589, 22590, 22591, 22592, 22593, 22594, 22595,
       22597, 22598, 22599, 22600, 22601, 22602, 22603, 22606, 22607, 22608, 22610, 22611, 22613, 22614,
       22615, 22617, 22618, 22619, 22620, 22621, 22623, 22624, 22625, 22626, 22627, 22628, 22630, 22631,
       22632, 22633, 22634, 22637, 22638, 22639, 22640, 22641, 22642, 22643, 22644, 22645, 22646, 22647,
       22648, 22649, 22650, 22651, 22652, 22653, 22655, 22658, 22660, 22662, 22663, 22664, 22666, 22667,
       22668, 22669, 22670, 22671, 22672, 22673, 22676, 22677, 22678, 22679, 22680, 22683, 22684, 22685,
       22688, 22689, 22690, 22691, 22692, 22693, 22694, 22695, 22698, 22699, 22700, 22701, 22702, 22703,
       22704, 22705, 22706, 22707, 22708, 22709, 22710, 22711, 22712, 22713, 22714, 22715, 22717, 22718,
       22719, 22720, 22722, 22723, 22724, 22726, 22727, 22728, 22729, 22730, 22731, 22732, 22733, 22734,
       22735, 22736, 22738, 22739, 22740, 22742, 22743, 22744, 22745, 22746, 22747, 22748, 22749, 22750,
       22751, 22752, 22753, 22754, 22755, 22757, 22758, 22759, 22760, 22761, 22762, 22765, 22767, 22769,
       22770, 22772, 22773, 22775, 22776, 22778, 22779, 22780, 22781, 22782, 22783, 22784, 22785, 22787,
       22789, 22790, 22792, 22793, 22794, 22795, 22796, 22798, 22800, 22801, 22802, 22803, 22807, 22808,
       22811, 22813, 22814, 22816, 22817, 22818, 22819, 22822, 22824, 22828, 22832, 22834, 22835, 22837,
       22838, 22843, 22845, 22846, 22847, 22848, 22851, 22853, 22854, 22858, 22860, 22861, 22864, 22866,
       22867, 22873, 22875, 22876, 22877, 22878, 22879, 22881, 22883, 22884, 22886, 22887, 22888, 22889,
       22890, 22891, 22892, 22893, 22894, 22895, 22896, 22897, 22898, 22901, 22903, 22906, 22907, 22908,
       22910, 22911, 22912, 22917, 22921, 22923, 22924, 22926, 22927, 22928, 22929, 22932, 22933, 22936,
       22938, 22939, 22940, 22941, 22943, 22944, 22945, 22946, 22950, 22951, 22956, 22957, 22960, 22961,
       22963, 22964, 22965, 22966, 22967, 22968, 22970, 22972, 22973, 22975, 22976, 22977, 22978, 22979,
       22980, 22981, 22983, 22984, 22985, 22988, 22989, 22990, 22991, 22997, 22998, 23001, 23003, 23006,
       23007, 23008, 23009, 23010, 23012, 23014, 23015, 23017, 23018, 23019, 23021, 23022, 23023, 23024,
       23025, 23026, 23027, 23028, 23029, 23030, 23031, 23032, 23034, 23036, 23037, 23038, 23040, 23042,
       23050, 23051, 23053, 23054, 23055, 23056, 23058, 23060, 23061, 23062, 23063, 23065, 23066, 23067,
       23069, 23070, 23073, 23074, 23076, 23078, 23079, 23080, 23082, 23083, 23084, 23085, 23086, 23087,
       23088, 23091, 23093, 23095, 23096, 23097, 23098, 23099, 23101, 23102, 23103, 23105, 23106, 23107,
       23108, 23109, 23111, 23112, 23115, 23116, 23117, 23118, 23119, 23120, 23121, 23122, 23123, 23124,
       23126, 23127, 23128, 23129, 23131, 23132, 23133, 23134, 23135, 23136, 23137, 23139, 23140, 23141,
       23142, 23144, 23145, 23147, 23148, 23149, 23150, 23151, 23152, 23153, 23154, 23155, 23160, 23161,
       23163, 23164, 23165, 23166, 23168, 23169, 23170, 23171, 23172, 23173, 23174, 23175, 23176, 23177,
       23178, 23179, 23180, 23181, 23182, 23183, 23184, 23185, 23187, 23188, 23189, 23190, 23191, 23192,
       23193, 23196, 23197, 23198, 23199, 23200, 23201, 23202, 23203, 23204, 23205, 23206, 23207, 23208,
       23209, 23211, 23212, 23213, 23214, 23215, 23216, 23217, 23220, 23222, 23223, 23225, 23226, 23227,
       23228, 23229, 23231, 23232, 23235, 23236, 23237, 23238, 23239, 23240, 23242, 23243, 23245, 23246,
       23247, 23248, 23249, 23251, 23253, 23255, 23257, 23258, 23259, 23261, 23262, 23263, 23266, 23268,
       23269, 23271, 23272, 23274, 23276, 23277, 23278, 23279, 23280, 23282, 23283, 23284, 23285, 23286,
       23287, 23288, 23289, 23290, 23291, 23292, 23293, 23294, 23295, 23296, 23297, 23298, 23299, 23300,
       23301, 23302, 23303, 23304, 23306, 23307, 23308, 23309, 23310, 23311, 23312, 23313, 23314, 23315,
       23316, 23317, 23320, 23321, 23322, 23323, 23324, 23325, 23326, 23327, 23328, 23329, 23330, 23331,
       23332, 23333, 23334, 23335, 23336, 23337, 23338, 23339, 23340, 23341, 23342, 23343, 23344, 23345,
       23347, 23349, 23350, 23352, 23353, 23354, 23355, 23356, 23357, 23358, 23359, 23361, 23362, 23363,
       23364, 23365, 23366, 23367, 23368, 23369, 23370, 23371, 23372, 23373, 23374, 23375, 23378, 23382,
       23390, 23392, 23393, 23399, 23400, 23403, 23405, 23406, 23407, 23410, 23412, 23414, 23415, 23416,
       23417, 23419, 23420, 23422, 23423, 23426, 23430, 23434, 23437, 23438, 23440, 23441, 23442, 23444,
       23446, 23455, 23463, 23464, 23465, 23468, 23469, 23470, 23471, 23473, 23474, 23479, 23482, 23483,
       23484, 23488, 23489, 23491, 23496, 23497, 23498, 23499, 23501, 23502, 23503, 23505, 23508, 23509,
       23510, 23511, 23512, 23513, 23514, 23515, 23516, 23520, 23522, 23523, 23526, 23527, 23529, 23530,
       23531, 23532, 23533, 23535, 23537, 23538, 23539, 23540, 23541, 23542, 23543, 23549, 23550, 23552,
       23554, 23555, 23557, 23559, 23560, 23563, 23564, 23565, 23566, 23568, 23570, 23571, 23575, 23577,
       23579, 23582, 23583, 23584, 23585, 23587, 23590, 23592, 23593, 23594, 23595, 23597, 23598, 23599,
       23600, 23602, 23603, 23605, 23606, 23607, 23619, 23620, 23622, 23623, 23628, 23629, 23634, 23635,
       23636, 23638, 23639, 23640, 23642, 23643, 23644, 23645, 23647, 23650, 23652, 23655, 23656, 23657,
       23658, 23659, 23660, 23661, 23664, 23666, 23667, 23668, 23669, 23670, 23671, 23672, 23675, 23676,
       23677, 23678, 23680, 23683, 23684, 23685, 23686, 23687, 23689, 23690, 23691, 23694, 23695, 23698,
       23699, 23701, 23709, 23710, 23711, 23712, 23713, 23716, 23717, 23718, 23719, 23720, 23722, 23726,
       23727, 23728, 23730, 23732, 23734, 23737, 23738, 23739, 23740, 23742, 23744, 23746, 23747, 23749,
       23750, 23751, 23752, 23753, 23754, 23756, 23757, 23758, 23759, 23760, 23761, 23763, 23764, 23765,
       23766, 23767, 23768, 23770, 23771, 23772, 23773, 23774, 23775, 23776, 23778, 23779, 23783, 23785,
       23787, 23788, 23790, 23791, 23793, 23794, 23795, 23796, 23797, 23798, 23799, 23800, 23801, 23802,
       23804, 23805, 23806, 23807, 23808, 23809, 23812, 23813, 23816, 23817, 23818, 23819, 23820, 23821,
       23823, 23824, 23825, 23826, 23827, 23829, 23831, 23832, 23833, 23834, 23836, 23837, 23839, 23840,
       23841, 23842, 23843, 23845, 23848, 23850, 23851, 23852, 23855, 23856, 23857, 23858, 23859, 23861,
       23862, 23863, 23864, 23865, 23866, 23867, 23868, 23871, 23872, 23873, 23874, 23875, 23876, 23877,
       23878, 23880, 23881, 23885, 23886, 23887, 23888, 23889, 23890, 23891, 23892, 23893, 23894, 23895,
       23897, 23898, 23900, 23902, 23903, 23904, 23905, 23906, 23907, 23908, 23909, 23910, 23911, 23912,
       23914, 23917, 23918, 23920, 23921, 23922, 23923, 23925, 23926, 23927, 23928, 23929, 23930, 23931,
       23932, 23933, 23934, 23935, 23936, 23937, 23939, 23940, 23941, 23942, 23943, 23944, 23945, 23946,
       23947, 23948, 23949, 23950, 23951, 23952, 23953, 23954, 23955, 23956, 23957, 23958, 23959, 23960,
       23962, 23963, 23964, 23966, 23967, 23968, 23969, 23970, 23971, 23972, 23973, 23974, 23975, 23976,
       23977, 23978, 23979, 23980, 23981, 23982, 23983, 23984, 23985, 23986, 23987, 23988, 23989, 23990,
       23992, 23993, 23994, 23995, 23996, 23997, 23998, 23999, 24000, 24001, 24002, 24003, 24004, 24006,
       24007, 24008, 24009, 24010, 24011, 24012, 24014, 24015, 24016, 24017, 24018, 24019, 24020, 24021,
       24022, 24023, 24024, 24025, 24026, 24028, 24031, 24032, 24035, 24036, 24042, 24044, 24045, 24048,
       24053, 24054, 24056, 24057, 24058, 24059, 24060, 24063, 24064, 24068, 24071, 24073, 24074, 24075,
       24077, 24078, 24082, 24083, 24087, 24094, 24095, 24096, 24097, 24098, 24099, 24100, 24101, 24104,
       24105, 24106, 24107, 24108, 24111, 24112, 24114, 24115, 24116, 24117, 24118, 24121, 24122, 24126,
       24127, 24128, 24129, 24131, 24134, 24135, 24136, 24137, 24138, 24139, 24141, 24142, 24143, 24144,
       24145, 24146, 24147, 24150, 24151, 24152, 24153, 24154, 24156, 24157, 24159, 24160, 24163, 24164,
       24165, 24166, 24167, 24168, 24169, 24170, 24171, 24172, 24173, 24174, 24175, 24176, 24177, 24181,
       24183, 24185, 24190, 24193, 24194, 24195, 24197, 24200, 24201, 24204, 24205, 24206, 24210, 24216,
       24219, 24221, 24225, 24226, 24227, 24228, 24232, 24233, 24234, 24235, 24236, 24238, 24239, 24240,
       24241, 24242, 24244, 24250, 24251, 24252, 24253, 24255, 24256, 24257, 24258, 24259, 24260, 24261,
       24262, 24263, 24264, 24267, 24268, 24269, 24270, 24271, 24272, 24276, 24277, 24279, 24280, 24281,
       24282, 24284, 24285, 24286, 24287, 24288, 24289, 24290, 24291, 24292, 24293, 24294, 24295, 24297,
       24299, 24300, 24301, 24302, 24303, 24304, 24305, 24306, 24307, 24309, 24312, 24313, 24315, 24316,
       24317, 24325, 24326, 24327, 24329, 24332, 24333, 24334, 24336, 24338, 24340, 24342, 24345, 24346,
       24348, 24349, 24350, 24353, 24354, 24355, 24356, 24360, 24363, 24364, 24366, 24368, 24370, 24371,
       24372, 24373, 24374, 24375, 24376, 24379, 24381, 24382, 24383, 24385, 24386, 24387, 24388, 24389,
       24390, 24391, 24392, 24393, 24394, 24395, 24396, 24397, 24398, 24399, 24401, 24404, 24409, 24410,
       24411, 24412, 24414, 24415, 24416, 24419, 24421, 24423, 24424, 24427, 24430, 24431, 24434, 24436,
       24437, 24438, 24440, 24442, 24445, 24446, 24447, 24451, 24454, 24461, 24462, 24463, 24465, 24467,
       24468, 24470, 24474, 24475, 24477, 24478, 24479, 24480, 24482, 24483, 24484, 24485, 24486, 24487,
       24489, 24491, 24492, 24495, 24496, 24497, 24498, 24499, 24500, 24502, 24504, 24505, 24506, 24507,
       24510, 24511, 24512, 24513, 24514, 24519, 24520, 24522, 24523, 24526, 24531, 24532, 24533, 24538,
       24539, 24540, 24542, 24543, 24546, 24547, 24549, 24550, 24552, 24553, 24556, 24559, 24560, 24562,
       24563, 24564, 24566, 24567, 24569, 24570, 24572, 24583, 24584, 24585, 24587, 24588, 24592, 24593,
       24595, 24599, 24600, 24602, 24606, 24607, 24610, 24611, 24612, 24620, 24621, 24622, 24624, 24625,
       24626, 24627, 24628, 24630, 24631, 24632, 24633, 24634, 24637, 24638, 24640, 24644, 24645, 24646,
       24647, 24648, 24649, 24650, 24652, 24654, 24655, 24657, 24659, 24660, 24662, 24663, 24664, 24667,
       24668, 24670, 24671, 24672, 24673, 24677, 24678, 24686, 24689, 24690, 24692, 24693, 24695, 24702,
       24704, 24705, 24706, 24709, 24710, 24711, 24712, 24714, 24715, 24718, 24719, 24720, 24721, 24723,
       24725, 24727, 24728, 24729, 24732, 24734, 24737, 24738, 24740, 24741, 24743, 24745, 24746, 24750,
       24752, 24755, 24757, 24758, 24759, 24761, 24762, 24765, 24766, 24767, 24768, 24769, 24770, 24771,
       24772, 24775, 24776, 24777, 24780, 24781, 24782, 24783, 24784, 24786, 24787, 24788, 24790, 24791,
       24793, 24795, 24798, 24801, 24802, 24803, 24804, 24805, 24810, 24817, 24818, 24821, 24823, 24824,
       24827, 24828, 24829, 24830, 24831, 24834, 24835, 24836, 24837, 24839, 24842, 24843, 24844, 24848,
       24849, 24850, 24851, 24852, 24854, 24855, 24856, 24857, 24859, 24860, 24861, 24862, 24865, 24866,
       24869, 24872, 24873, 24874, 24876, 24877, 24878, 24879, 24880, 24881, 24882, 24883, 24884, 24885,
       24886, 24887, 24888, 24889, 24890, 24891, 24892, 24893, 24894, 24896, 24897, 24898, 24899, 24900,
       24901, 24902, 24903, 24905, 24907, 24909, 24911, 24912, 24914, 24915, 24916, 24918, 24919, 24920,
       24921, 24922, 24923, 24924, 24926, 24927, 24928, 24929, 24931, 24932, 24933, 24934, 24937, 24938,
       24939, 24940, 24941, 24942, 24943, 24945, 24946, 24947, 24948, 24950, 24952, 24953, 24954, 24955,
       24956, 24957, 24958, 24959, 24960, 24961, 24962, 24963, 24964, 24965, 24966, 24967, 24968, 24969,
       24970, 24972, 24973, 24975, 24976, 24977, 24978, 24979, 24981, 24982, 24983, 24984, 24985, 24986,
       24987, 24988, 24990, 24991, 24992, 24993, 24994, 24995, 24996, 24997, 24998, 25002, 25003, 25005,
       25006, 25007, 25008, 25009, 25010, 25011, 25012, 25013, 25014, 25016, 25017, 25018, 25019, 25020,
       25021, 25023, 25024, 25025, 25027, 25028, 25029, 25030, 25031, 25033, 25036, 25037, 25038, 25039,
       25040, 25043, 25045, 25046, 25047, 25048, 25049, 25050, 25051, 25052, 25053, 25054, 25055, 25056,
       25057, 25058, 25059, 25060, 25061, 25063, 25064, 25065, 25066, 25067, 25068, 25069, 25070, 25071,
       25072, 25073, 25074, 25075, 25076, 25078, 25079, 25080, 25081, 25082, 25083, 25084, 25085, 25086,
       25088, 25089, 25090, 25091, 25092, 25093, 25095, 25097, 25107, 25108, 25113, 25116, 25117, 25118,
       25120, 25123, 25126, 25127, 25128, 25129, 25131, 25133, 25135, 25136, 25137, 25138, 25141, 25142,
       25144, 25145, 25146, 25147, 25148, 25154, 25156, 25157, 25158, 25162, 25167, 25168, 25173, 25174,
       25175, 25177, 25178, 25180, 25181, 25182, 25183, 25184, 25185, 25186, 25188, 25189, 25192, 25201,
       25202, 25204, 25205, 25207, 25208, 25210, 25211, 25213, 25217, 25218, 25219, 25221, 25222, 25223,
       25224, 25227, 25228, 25229, 25230, 25231, 25232, 25236, 25241, 25244, 25245, 25246, 25251, 25254,
       25255, 25257, 25258, 25261, 25262, 25263, 25264, 25266, 25267, 25268, 25270, 25271, 25272, 25274,
       25278, 25280, 25281, 25283, 25291, 25295, 25297, 25301, 25309, 25310, 25312, 25313, 25316, 25322,
       25323, 25328, 25330, 25333, 25336, 25337, 25338, 25339, 25344, 25347, 25348, 25349, 25350, 25354,
       25355, 25356, 25357, 25359, 25360, 25362, 25363, 25364, 25365, 25367, 25368, 25369, 25372, 25382,
       25383, 25385, 25388, 25389, 25390, 25392, 25393, 25395, 25396, 25397, 25398, 25399, 25400, 25403,
       25404, 25406, 25407, 25408, 25409, 25412, 25415, 25416, 25418, 25425, 25426, 25427, 25428, 25430,
       25431, 25432, 25433, 25434, 25435, 25436, 25437, 25440, 25444, 25445, 25446, 25448, 25450, 25451,
       25452, 25455, 25456, 25458, 25459, 25460, 25461, 25464, 25465, 25468, 25469, 25470, 25471, 25473,
       25475, 25476, 25477, 25478, 25483, 25485, 25489, 25491, 25492, 25493, 25495, 25497, 25498, 25499,
       25500, 25501, 25502, 25503, 25505, 25508, 25510, 25515, 25519, 25521, 25522, 25525, 25526, 25529,
       25531, 25533, 25535, 25536, 25537, 25538, 25539, 25541, 25543, 25544, 25546, 25547, 25548, 25553,
       25555, 25556, 25557, 25559, 25560, 25561, 25562, 25563, 25564, 25565, 25567, 25570, 25572, 25573,
       25574, 25575, 25576, 25579, 25580, 25582, 25583, 25584, 25585, 25587, 25589, 25591, 25593, 25594,
       25595, 25596, 25598, 25603, 25604, 25606, 25607, 25608, 25609, 25610, 25613, 25614, 25617, 25618,
       25621, 25622, 25623, 25624, 25625, 25626, 25629, 25631, 25634, 25635, 25636, 25637, 25639, 25640,
       25641, 25643, 25646, 25647, 25648, 25649, 25650, 25651, 25653, 25654, 25655, 25656, 25657, 25659,
       25660, 25662, 25664, 25666, 25667, 25673, 25675, 25676, 25677, 25678, 25679, 25680, 25681, 25683,
       25685, 25686, 25687, 25689, 25690, 25691, 25692, 25693, 25695, 25696, 25697, 25698, 25699, 25700,
       25701, 25702, 25704, 25706, 25707, 25708, 25710, 25711, 25712, 25713, 25714, 25715, 25716, 25717,
       25718, 25719, 25723, 25724, 25725, 25726, 25727, 25728, 25729, 25731, 25734, 25736, 25737, 25738,
       25739, 25740, 25741, 25742, 25743, 25744, 25747, 25748, 25751, 25752, 25754, 25755, 25756, 25757,
       25759, 25760, 25761, 25762, 25763, 25765, 25766, 25767, 25768, 25770, 25771, 25775, 25777, 25778,
       25779, 25780, 25782, 25785, 25787, 25789, 25790, 25791, 25793, 25795, 25796, 25798, 25799, 25800,
       25801, 25802, 25803, 25804, 25807, 25809, 25811, 25812, 25813, 25814, 25817, 25818, 25819, 25820,
       25821, 25823, 25824, 25825, 25827, 25829, 25831, 25832, 25833, 25834, 25835, 25836, 25837, 25838,
       25839, 25840, 25841, 25842, 25843, 25844, 25845, 25846, 25847, 25848, 25849, 25850, 25851, 25852,
       25853, 25854, 25855, 25857, 25858, 25859, 25860, 25861, 25862, 25863, 25864, 25866, 25867, 25868,
       25869, 25870, 25871, 25872, 25873, 25875, 25876, 25877, 25878, 25879, 25881, 25882, 25883, 25884,
       25885, 25886, 25887, 25888, 25889, 25890, 25891, 25892, 25894, 25895, 25896, 25897, 25898, 25900,
       25901, 25904, 25905, 25906, 25907, 25911, 25914, 25916, 25917, 25920, 25921, 25922, 25923, 25924,
       25926, 25927, 25930, 25931, 25933, 25934, 25936, 25938, 25939, 25940, 25943, 25944, 25946, 25948,
       25951, 25952, 25953, 25956, 25957, 25959, 25960, 25961, 25962, 25965, 25966, 25967, 25969, 25971,
       25973, 25974, 25976, 25977, 25978, 25979, 25980, 25981, 25982, 25983, 25984, 25985, 25986, 25987,
       25988, 25989, 25990, 25992, 25993, 25994, 25997, 25998, 25999, 26002, 26004, 26005, 26006, 26008,
       26010, 26013, 26014, 26016, 26018, 26019, 26022, 26024, 26026, 26028, 26030, 26033, 26034, 26035,
       26036, 26037, 26038, 26039, 26040, 26042, 26043, 26046, 26047, 26048, 26050, 26055, 26056, 26057,
       26058, 26061, 26064, 26065, 26067, 26068, 26069, 26072, 26073, 26074, 26075, 26076, 26077, 26078,
       26079, 26081, 26083, 26084, 26090, 26091, 26098, 26099, 26100, 26101, 26104, 26105, 26107, 26108,
       26109, 26110, 26111, 26113, 26116, 26117, 26119, 26120, 26121, 26123, 26125, 26128, 26129, 26130,
       26134, 26135, 26136, 26138, 26139, 26140, 26142, 26145, 26146, 26147, 26148, 26150, 26153, 26154,
       26155, 26156, 26158, 26160, 26162, 26163, 26167, 26168, 26169, 26170, 26171, 26173, 26175, 26176,
       26178, 26180, 26181, 26182, 26183, 26184, 26185, 26186, 26189, 26190, 26192, 26193, 26200, 26201,
       26203, 26204, 26205, 26206, 26208, 26210, 26211, 26213, 26215, 26217, 26218, 26219, 26220, 26221,
       26225, 26226, 26227, 26229, 26232, 26233, 26235, 26236, 26237, 26239, 26240, 26241, 26243, 26245,
       26246, 26248, 26249, 26250, 26251, 26253, 26254, 26255, 26256, 26258, 26259, 26260, 26261, 26264,
       26265, 26266, 26267, 26268, 26270, 26271, 26272, 26273, 26274, 26275, 26276, 26277, 26278, 26281,
       26282, 26283, 26284, 26285, 26287, 26288, 26289, 26290, 26291, 26293, 26294, 26295, 26296, 26298,
       26299, 26300, 26301, 26303, 26304, 26305, 26306, 26307, 26308, 26309, 26310, 26311, 26312, 26313,
       26314, 26315, 26316, 26317, 26318, 26319, 26320, 26321, 26322, 26323, 26324, 26325, 26326, 26327,
       26328, 26330, 26334, 26335, 26336, 26337, 26338, 26339, 26340, 26341, 26343, 26344, 26346, 26347,
       26348, 26349, 26350, 26351, 26353, 26357, 26358, 26360, 26362, 26363, 26365, 26369, 26370, 26371,
       26372, 26373, 26374, 26375, 26380, 26382, 26383, 26385, 26386, 26387, 26390, 26392, 26393, 26394,
       26396, 26398, 26400, 26401, 26402, 26403, 26404, 26405, 26407, 26409, 26414, 26416, 26418, 26419,
       26422, 26423, 26424, 26425, 26427, 26428, 26430, 26431, 26433, 26436, 26437, 26439, 26442, 26443,
       26445, 26450, 26452, 26453, 26455, 26456, 26457, 26458, 26459, 26461, 26466, 26467, 26468, 26470,
       26471, 26475, 26476, 26478, 26481, 26484, 26486, 26488, 26489, 26490, 26491, 26493, 26496, 26498,
       26499, 26501, 26502, 26504, 26506, 26508, 26509, 26510, 26511, 26513, 26514, 26515, 26516, 26518,
       26521, 26523, 26527, 26528, 26529, 26532, 26534, 26537, 26540, 26542, 26545, 26546, 26548, 26553,
       26554, 26555, 26556, 26557, 26558, 26559, 26560, 26562, 26565, 26566, 26567, 26568, 26569, 26570,
       26571, 26572, 26573, 26574, 26581, 26582, 26583, 26587, 26591, 26593, 26595, 26596, 26598, 26599,
       26600, 26602, 26603, 26605, 26606, 26610, 26613, 26614, 26615, 26616, 26617, 26618, 26619, 26620,
       26622, 26625, 26626, 26627, 26628, 26630, 26637, 26640, 26642, 26644, 26645, 26648, 26649, 26650,
       26651, 26652, 26654, 26655, 26656, 26658, 26659, 26660, 26661, 26662, 26663, 26664, 26667, 26668,
       26669, 26670, 26671, 26672, 26673, 26676, 26677, 26678, 26682, 26683, 26687, 26695, 26699, 26701,
       26703, 26706, 26710, 26711, 26712, 26713, 26714, 26715, 26716, 26717, 26718, 26719, 26730, 26732,
       26733, 26734, 26735, 26736, 26737, 26738, 26739, 26741, 26744, 26745, 26746, 26747, 26748, 26749,
       26750, 26751, 26752, 26754, 26756, 26759, 26760, 26761, 26762, 26763, 26764, 26765, 26766, 26768,
       26769, 26770, 26772, 26773, 26774, 26776, 26777, 26778, 26779, 26780, 26781, 26782, 26783, 26784,
       26785, 26787, 26788, 26789, 26793, 26794, 26795, 26796, 26798, 26801, 26802, 26804, 26806, 26807,
       26808, 26809, 26810, 26811, 26812, 26813, 26814, 26815, 26817, 26819, 26820, 26821, 26822, 26823,
       26824, 26826, 26828, 26830, 26831, 26832, 26833, 26835, 26836, 26838, 26839, 26841, 26843, 26844,
       26845, 26846, 26847, 26849, 26850, 26852, 26853, 26854, 26855, 26856, 26857, 26858, 26859, 26860,
       26861, 26863, 26866, 26867, 26868, 26870, 26871, 26872, 26875, 26877, 26878, 26879, 26880, 26882,
       26883, 26884, 26886, 26887, 26888, 26889, 26890, 26892, 26895, 26897, 26899, 26900, 26901, 26902,
       26903, 26904, 26905, 26906, 26907, 26908, 26909, 26910, 26913, 26914, 26915, 26917, 26918, 26919,
       26920, 26921, 26922, 26923, 26924, 26926, 26927, 26929, 26930, 26931, 26933, 26934, 26935, 26936,
       26938, 26939, 26940, 26942, 26944, 26945, 26947, 26948, 26949, 26950, 26951, 26952, 26953, 26954,
       26955, 26956, 26957, 26958, 26959, 26960, 26961, 26962, 26963, 26965, 26966, 26968, 26969, 26971,
       26972, 26975, 26977, 26978, 26980, 26981, 26983, 26984, 26985, 26986, 26988, 26989, 26991, 26992,
       26994, 26995, 26996, 26997, 26998, 27002, 27003, 27005, 27006, 27007, 27009, 27011, 27013, 27018,
       27019, 27020, 27022, 27023, 27024, 27025, 27026, 27027, 27030, 27031, 27033, 27034, 27037, 27038,
       27039, 27040, 27041, 27042, 27043, 27044, 27045, 27046, 27049, 27050, 27052, 27054, 27055, 27056,
       27058, 27059, 27061, 27062, 27064, 27065, 27066, 27068, 27069, 27070, 27071, 27072, 27074, 27075,
       27076, 27077, 27078, 27079, 27080, 27081, 27083, 27085, 27087, 27089, 27090, 27091, 27093, 27094,
       27095, 27096, 27097, 27098, 27100, 27101, 27102, 27105, 27106, 27107, 27108, 27109, 27110, 27111,
       27112, 27113, 27114, 27115, 27116, 27118, 27119, 27120, 27121, 27123, 27124, 27125, 27126, 27127,
       27128, 27129, 27130, 27131, 27132, 27134, 27136, 27137, 27138, 27139, 27140, 27141, 27142, 27143,
       27144, 27145, 27147, 27148, 27149, 27150, 27151, 27152, 27153, 27154, 27155, 27156, 27157, 27158,
       27161, 27162, 27163, 27164, 27165, 27166, 27168, 27170, 27171, 27172, 27173, 27174, 27175, 27177,
       27179, 27180, 27181, 27182, 27184, 27186, 27187, 27188, 27190, 27191, 27192, 27193, 27194, 27195,
       27196, 27199, 27200, 27201, 27202, 27203, 27205, 27206, 27208, 27209, 27210, 27211, 27212, 27213,
       27214, 27215, 27217, 27218, 27219, 27220, 27221, 27222, 27223, 27226, 27228, 27229, 27230, 27231,
       27232, 27234, 27235, 27236, 27238, 27239, 27240, 27241, 27242, 27243, 27244, 27245, 27246, 27247,
       27248, 27250, 27251, 27252, 27253, 27254, 27255, 27256, 27258, 27259, 27261, 27262, 27263, 27265,
       27266, 27267, 27269, 27270, 27271, 27272, 27273, 27274, 27275, 27276, 27277, 27279, 27282, 27283,
       27284, 27285, 27286, 27288, 27289, 27290, 27291, 27292, 27293, 27294, 27295, 27297, 27298, 27299,
       27300, 27301, 27302, 27303, 27304, 27306, 27309, 27310, 27311, 27312, 27313, 27314, 27315, 27316,
       27317, 27318, 27319, 27320, 27321, 27322, 27323, 27324, 27325, 27326, 27327, 27328, 27329, 27330,
       27331, 27332, 27333, 27334, 27335, 27336, 27337, 27338, 27339, 27340, 27341, 27342, 27343, 27344,
       27345, 27346, 27347, 27348, 27349, 27350, 27351, 27352, 27353, 27354, 27355, 27356, 27357, 27358,
       27359, 27360, 27361, 27362, 27363, 27364, 27365, 27366, 27367, 27368, 27369, 27370, 27371, 27372,
       27373, 27374, 27375, 27376, 27377, 27378, 27379, 27380, 27381, 27382, 27383, 27384, 27385, 27386,
       27387, 27388, 27389, 27390, 27391, 27392, 27393, 27394, 27395, 27396, 27397, 27398, 27399, 27400,
       27401, 27402, 27403, 27404, 27405, 27406, 27407, 27408, 27409, 27410, 27411, 27412, 27413, 27414,
       27415, 27416, 27417, 27418, 27419, 27420, 27421, 27422, 27423, 27429, 27430, 27432, 27433, 27434,
       27435, 27436, 27437, 27438, 27439, 27440, 27441, 27443, 27444, 27445, 27446, 27448, 27451, 27452,
       27453, 27455, 27456, 27457, 27458, 27460, 27461, 27464, 27466, 27467, 27469, 27470, 27471, 27472,
       27473, 27474, 27475, 27476, 27477, 27478, 27479, 27480, 27482, 27483, 27484, 27485, 27486, 27487,
       27488, 27489, 27496, 27497, 27499, 27500, 27501, 27502, 27503, 27504, 27505, 27506, 27507, 27508,
       27509, 27510, 27511, 27512, 27514, 27517, 27518, 27519, 27520, 27525, 27528, 27532, 27534, 27535,
       27536, 27537, 27540, 27541, 27543, 27544, 27545, 27548, 27549, 27550, 27551, 27552, 27554, 27555,
       27556, 27557, 27558, 27559, 27560, 27561, 27563, 27564, 27565, 27566, 27567, 27568, 27569, 27570,
       27574, 27576, 27577, 27578, 27579, 27580, 27581, 27582, 27584, 27587, 27588, 27590, 27591, 27592,
       27593, 27594, 27596, 27598, 27600, 27601, 27608, 27610, 27612, 27613, 27614, 27615, 27616, 27618,
       27619, 27620, 27621, 27622, 27623, 27624, 27625, 27628, 27629, 27630, 27632, 27633, 27634, 27636,
       27638, 27639, 27640, 27642, 27643, 27644, 27646, 27647, 27648, 27649, 27650, 27651, 27652, 27656,
       27657, 27658, 27659, 27660, 27662, 27666, 27671, 27676, 27677, 27678, 27680, 27683, 27685, 27691,
       27692, 27693, 27697, 27699, 27702, 27703, 27705, 27706, 27707, 27708, 27710, 27711, 27715, 27716,
       27717, 27720, 27723, 27724, 27725, 27726, 27727, 27729, 27730, 27731, 27734, 27736, 27737, 27738,
       27746, 27747, 27749, 27750, 27751, 27755, 27756, 27757, 27758, 27759, 27761, 27763, 27765, 27767,
       27768, 27770, 27771, 27772, 27775, 27776, 27780, 27783, 27786, 27787, 27789, 27790, 27793, 27794,
       27797, 27798, 27799, 27800, 27802, 27804, 27805, 27806, 27808, 27810, 27816, 27820, 27823, 27824,
       27828, 27829, 27830, 27831, 27834, 27840, 27841, 27842, 27843, 27846, 27847, 27848, 27851, 27853,
       27854, 27855, 27857, 27858, 27864, 27865, 27866, 27868, 27869, 27871, 27876, 27878, 27879, 27881,
       27884, 27885, 27890, 27892, 27897, 27903, 27904, 27906, 27907, 27909, 27910, 27912, 27913, 27914,
       27917, 27919, 27920, 27921, 27923, 27924, 27925, 27926, 27928, 27932, 27933, 27935, 27936, 27937,
       27938, 27939, 27940, 27942, 27944, 27945, 27948, 27949, 27951, 27952, 27956, 27958, 27959, 27960,
       27962, 27967, 27968, 27970, 27972, 27977, 27980, 27984, 27989, 27990, 27991, 27992, 27995, 27997,
       27999, 28001, 28002, 28004, 28005, 28007, 28008, 28011, 28012, 28013, 28016, 28017, 28018, 28019,
       28021, 28022, 28025, 28026, 28027, 28029, 28030, 28031, 28032, 28033, 28035, 28036, 28038, 28039,
       28042, 28043, 28045, 28047, 28048, 28050, 28054, 28055, 28056, 28057, 28058, 28060, 28066, 28069,
       28076, 28077, 28080, 28081, 28083, 28084, 28086, 28087, 28089, 28090, 28091, 28092, 28093, 28094,
       28097, 28098, 28099, 28104, 28105, 28106, 28109, 28110, 28111, 28112, 28114, 28115, 28116, 28117,
       28119, 28122, 28123, 28124, 28127, 28130, 28131, 28133, 28135, 28136, 28137, 28138, 28141, 28143,
       28144, 28146, 28148, 28149, 28150, 28152, 28154, 28157, 28158, 28159, 28160, 28161, 28162, 28163,
       28164, 28166, 28167, 28168, 28169, 28171, 28175, 28178, 28179, 28181, 28184, 28185, 28187, 28188,
       28190, 28191, 28194, 28198, 28199, 28200, 28202, 28204, 28206, 28208, 28209, 28211, 28213, 28214,
       28215, 28217, 28219, 28220, 28221, 28222, 28223, 28224, 28225, 28226, 28229, 28230, 28231, 28232,
       28233, 28234, 28235, 28236, 28239, 28240, 28241, 28242, 28245, 28247, 28249, 28250, 28252, 28253,
       28254, 28256, 28257, 28258, 28259, 28260, 28261, 28262, 28263, 28264, 28265, 28266, 28268, 28269,
       28271, 28272, 28273, 28274, 28275, 28276, 28277, 28278, 28279, 28280, 28281, 28282, 28283, 28284,
       28285, 28288, 28289, 28290, 28292, 28295, 28296, 28298, 28299, 28300, 28301, 28302, 28305, 28306,
       28307, 28308, 28309, 28310, 28311, 28313, 28314, 28315, 28317, 28318, 28320, 28321, 28323, 28324,
       28326, 28328, 28329, 28331, 28332, 28333, 28334, 28336, 28339, 28341, 28344, 28345, 28348, 28350,
       28351, 28352, 28355, 28356, 28357, 28358, 28360, 28361, 28362, 28364, 28365, 28366, 28368, 28370,
       28374, 28376, 28377, 28379, 28380, 28381, 28387, 28391, 28394, 28395, 28396, 28397, 28398, 28399,
       28400, 28401, 28402, 28403, 28405, 28406, 28407, 28408, 28410, 28411, 28412, 28413, 28414, 28415,
       28416, 28417, 28419, 28420, 28421, 28423, 28424, 28426, 28427, 28428, 28429, 28430, 28432, 28433,
       28434, 28438, 28439, 28440, 28441, 28442, 28443, 28444, 28445, 28446, 28447, 28449, 28450, 28451,
       28453, 28454, 28455, 28456, 28460, 28462, 28464, 28466, 28468, 28469, 28471, 28472, 28473, 28474,
       28475, 28476, 28477, 28479, 28480, 28481, 28482, 28483, 28484, 28485, 28488, 28489, 28490, 28492,
       28494, 28495, 28496, 28497, 28498, 28499, 28500, 28501, 28502, 28503, 28505, 28506, 28507, 28509,
       28511, 28512, 28513, 28515, 28516, 28517, 28519, 28520, 28521, 28522, 28523, 28524, 28527, 28528,
       28529, 28531, 28533, 28534, 28535, 28537, 28539, 28541, 28542, 28543, 28544, 28545, 28546, 28547,
       28549, 28550, 28551, 28554, 28555, 28559, 28560, 28561, 28562, 28563, 28564, 28565, 28566, 28567,
       28568, 28569, 28570, 28571, 28573, 28574, 28575, 28576, 28578, 28579, 28580, 28581, 28582, 28584,
       28585, 28586, 28587, 28588, 28589, 28590, 28591, 28592, 28593, 28594, 28596, 28597, 28599, 28600,
       28602, 28603, 28604, 28605, 28606, 28607, 28609, 28611, 28612, 28613, 28614, 28615, 28616, 28618,
       28619, 28620, 28621, 28622, 28623, 28624, 28627, 28628, 28629, 28630, 28631, 28632, 28633, 28634,
       28635, 28636, 28637, 28639, 28642, 28643, 28644, 28645, 28646, 28647, 28648, 28649, 28650, 28651,
       28652, 28653, 28656, 28657, 28658, 28659, 28660, 28661, 28662, 28663, 28664, 28665, 28666, 28667,
       28668, 28669, 28670, 28671, 28672, 28673, 28674, 28675, 28676, 28677, 28678, 28679, 28680, 28681,
       28682, 28683, 28684, 28685, 28686, 28687, 28688, 28690, 28691, 28692, 28693, 28694, 28695, 28696,
       28697, 28700, 28701, 28702, 28703, 28704, 28705, 28706, 28708, 28709, 28710, 28711, 28712, 28713,
       28714, 28715, 28716, 28717, 28718, 28719, 28720, 28721, 28722, 28723, 28724, 28726, 28727, 28728,
       28730, 28731, 28732, 28733, 28734, 28735, 28736, 28737, 28738, 28739, 28740, 28741, 28742, 28743,
       28744, 28745, 28746, 28747, 28749, 28750, 28752, 28753, 28754, 28755, 28756, 28757, 28758, 28759,
       28760, 28761, 28762, 28763, 28764, 28765, 28767, 28768, 28769, 28770, 28771, 28772, 28773, 28774,
       28775, 28776, 28777, 28778, 28782, 28785, 28786, 28787, 28788, 28791, 28793, 28794, 28795, 28797,
       28801, 28802, 28803, 28804, 28806, 28807, 28808, 28811, 28812, 28813, 28815, 28816, 28817, 28819,
       28823, 28824, 28826, 28827, 28830, 28831, 28832, 28833, 28834, 28835, 28836, 28837, 28838, 28839,
       28840, 28841, 28842, 28848, 28850, 28852, 28853, 28854, 28858, 28862, 28863, 28868, 28869, 28870,
       28871, 28873, 28875, 28876, 28877, 28878, 28879, 28880, 28881, 28882, 28883, 28884, 28885, 28886,
       28887, 28890, 28892, 28893, 28894, 28896, 28897, 28898, 28899, 28901, 28906, 28910, 28912, 28913,
       28914, 28915, 28916, 28917, 28918, 28920, 28922, 28923, 28924, 28926, 28927, 28928, 28929, 28930,
       28931, 28932, 28933, 28934, 28935, 28936, 28939, 28940, 28941, 28942, 28943, 28945, 28946, 28948,
       28951, 28955, 28956, 28957, 28958, 28959, 28960, 28961, 28962, 28963, 28964, 28965, 28967, 28968,
       28969, 28970, 28971, 28972, 28973, 28974, 28978, 28979, 28980, 28981, 28983, 28984, 28985, 28986,
       28987, 28988, 28989, 28990, 28991, 28992, 28993, 28994, 28995, 28996, 28998, 28999, 29000, 29001,
       29003, 29005, 29007, 29008, 29009, 29010, 29011, 29012, 29013, 29014, 29015, 29016, 29017, 29018,
       29019, 29021, 29023, 29024, 29025, 29026, 29027, 29029, 29033, 29034, 29035, 29036, 29037, 29039,
       29040, 29041, 29044, 29045, 29046, 29047, 29049, 29051, 29052, 29054, 29055, 29056, 29057, 29058,
       29059, 29061, 29062, 29063, 29064, 29065, 29067, 29068, 29069, 29070, 29072, 29073, 29074, 29075,
       29077, 29078, 29079, 29082, 29083, 29084, 29085, 29086, 29089, 29090, 29091, 29092, 29093, 29094,
       29095, 29097, 29098, 29099, 29101, 29102, 29103, 29104, 29105, 29106, 29108, 29110, 29111, 29112,
       29114, 29115, 29116, 29117, 29118, 29119, 29120, 29121, 29122, 29124, 29125, 29126, 29127, 29128,
       29129, 29130, 29131, 29132, 29133, 29135, 29136, 29137, 29138, 29139, 29142, 29143, 29144, 29145,
       29146, 29147, 29148, 29149, 29150, 29151, 29153, 29154, 29155, 29156, 29158, 29160, 29161, 29162,
       29163, 29164, 29165, 29167, 29168, 29169, 29170, 29171, 29172, 29173, 29174, 29175, 29176, 29178,
       29179, 29180, 29181, 29182, 29183, 29184, 29185, 29186, 29187, 29188, 29189, 29191, 29192, 29193,
       29194, 29195, 29196, 29197, 29198, 29199, 29200, 29201, 29202, 29203, 29204, 29205, 29206, 29207,
       29208, 29209, 29210, 29211, 29212, 29214, 29215, 29216, 29217, 29218, 29219, 29220, 29221, 29222,
       29223, 29225, 29227, 29229, 29230, 29231, 29234, 29235, 29236, 29242, 29244, 29246, 29248, 29249,
       29250, 29251, 29252, 29253, 29254, 29257, 29258, 29259, 29262, 29263, 29264, 29265, 29267, 29268,
       29269, 29271, 29272, 29274, 29276, 29278, 29280, 29283, 29284, 29285, 29288, 29290, 29291, 29292,
       29293, 29296, 29297, 29299, 29300, 29302, 29303, 29304, 29307, 29308, 29309, 29314, 29315, 29317,
       29318, 29319, 29320, 29321, 29324, 29326, 29328, 29329, 29331, 29332, 29333, 29334, 29335, 29336,
       29337, 29338, 29339, 29340, 29341, 29342, 29344, 29345, 29346, 29347, 29348, 29349, 29350, 29351,
       29352, 29353, 29354, 29355, 29358, 29361, 29362, 29363, 29365, 29370, 29371, 29372, 29373, 29374,
       29375, 29376, 29381, 29382, 29383, 29385, 29386, 29387, 29388, 29391, 29393, 29395, 29396, 29397,
       29398, 29400, 29402, 29403, 58566, 58567, 58568, 58569, 58570, 58571, 58572, 58573, 58574, 58575,
       58576, 58577, 58578, 58579, 58580, 58581, 58582, 58583, 58584, 58585, 58586, 58587, 58588, 58589,
       58590, 58591, 58592, 58593, 58594, 58595, 58596, 58597, 58598, 58599, 58600, 58601, 58602, 58603,
       58604, 58605, 58606, 58607, 58608, 58609, 58610, 58611, 58612, 58613, 58614, 58615, 58616, 58617,
       58618, 58619, 58620, 58621, 58622, 58623, 58624, 58625, 58626, 58627, 58628, 58629, 58630, 58631,
       58632, 58633, 58634, 58635, 58636, 58637, 58638, 58639, 58640, 58641, 58642, 58643, 58644, 58645,
       58646, 58647, 58648, 58649, 58650, 58651, 58652, 58653, 58654, 58655, 58656, 58657, 58658, 58659,
       58660, 58661, 12288, 12289, 12290, 183, 713, 711, 168, 12291, 12293, 8212, 65374, 8214, 8230, 8216,
       8217, 8220, 8221, 12308, 12309, 12296, 12297, 12298, 12299, 12300, 12301, 12302, 12303, 12310, 12311,
       12304, 12305, 177, 215, 247, 8758, 8743, 8744, 8721, 8719, 8746, 8745, 8712, 8759, 8730, 8869, 8741,
       8736, 8978, 8857, 8747, 8750, 8801, 8780, 8776, 8765, 8733, 8800, 8814, 8815, 8804, 8805, 8734, 8757,
       8756, 9794, 9792, 176, 8242, 8243, 8451, 65284, 164, 65504, 65505, 8240, 167, 8470, 9734, 9733, 9675,
       9679, 9678, 9671, 9670, 9633, 9632, 9651, 9650, 8251, 8594, 8592, 8593, 8595, 12307, 58662, 58663,
       58664, 58665, 58666, 58667, 58668, 58669, 58670, 58671, 58672, 58673, 58674, 58675, 58676, 58677,
       58678, 58679, 58680, 58681, 58682, 58683, 58684, 58685, 58686, 58687, 58688, 58689, 58690, 58691,
       58692, 58693, 58694, 58695, 58696, 58697, 58698, 58699, 58700, 58701, 58702, 58703, 58704, 58705,
       58706, 58707, 58708, 58709, 58710, 58711, 58712, 58713, 58714, 58715, 58716, 58717, 58718, 58719,
       58720, 58721, 58722, 58723, 58724, 58725, 58726, 58727, 58728, 58729, 58730, 58731, 58732, 58733,
       58734, 58735, 58736, 58737, 58738, 58739, 58740, 58741, 58742, 58743, 58744, 58745, 58746, 58747,
       58748, 58749, 58750, 58751, 58752, 58753, 58754, 58755, 58756, 58757, 8560, 8561, 8562, 8563, 8564,
       8565, 8566, 8567, 8568, 8569, 59238, 59239, 59240, 59241, 59242, 59243, 9352, 9353, 9354, 9355, 9356,
       9357, 9358, 9359, 9360, 9361, 9362, 9363, 9364, 9365, 9366, 9367, 9368, 9369, 9370, 9371, 9332, 9333,
       9334, 9335, 9336, 9337, 9338, 9339, 9340, 9341, 9342, 9343, 9344, 9345, 9346, 9347, 9348, 9349, 9350,
       9351, 9312, 9313, 9314, 9315, 9316, 9317, 9318, 9319, 9320, 9321, 8364, 59245, 12832, 12833, 12834,
       12835, 12836, 12837, 12838, 12839, 12840, 12841, 59246, 59247, 8544, 8545, 8546, 8547, 8548, 8549,
       8550, 8551, 8552, 8553, 8554, 8555, 59248, 59249, 58758, 58759, 58760, 58761, 58762, 58763, 58764,
       58765, 58766, 58767, 58768, 58769, 58770, 58771, 58772, 58773, 58774, 58775, 58776, 58777, 58778,
       58779, 58780, 58781, 58782, 58783, 58784, 58785, 58786, 58787, 58788, 58789, 58790, 58791, 58792,
       58793, 58794, 58795, 58796, 58797, 58798, 58799, 58800, 58801, 58802, 58803, 58804, 58805, 58806,
       58807, 58808, 58809, 58810, 58811, 58812, 58813, 58814, 58815, 58816, 58817, 58818, 58819, 58820,
       58821, 58822, 58823, 58824, 58825, 58826, 58827, 58828, 58829, 58830, 58831, 58832, 58833, 58834,
       58835, 58836, 58837, 58838, 58839, 58840, 58841, 58842, 58843, 58844, 58845, 58846, 58847, 58848,
       58849, 58850, 58851, 58852, 58853, 65281, 65282, 65283, 65509, 65285, 65286, 65287, 65288, 65289,
       65290, 65291, 65292, 65293, 65294, 65295, 65296, 65297, 65298, 65299, 65300, 65301, 65302, 65303,
       65304, 65305, 65306, 65307, 65308, 65309, 65310, 65311, 65312, 65313, 65314, 65315, 65316, 65317,
       65318, 65319, 65320, 65321, 65322, 65323, 65324, 65325, 65326, 65327, 65328, 65329, 65330, 65331,
       65332, 65333, 65334, 65335, 65336, 65337, 65338, 65339, 65340, 65341, 65342, 65343, 65344, 65345,
       65346, 65347, 65348, 65349, 65350, 65351, 65352, 65353, 65354, 65355, 65356, 65357, 65358, 65359,
       65360, 65361, 65362, 65363, 65364, 65365, 65366, 65367, 65368, 65369, 65370, 65371, 65372, 65373,
       65507, 58854, 58855, 58856, 58857, 58858, 58859, 58860, 58861, 58862, 58863, 58864, 58865, 58866,
       58867, 58868, 58869, 58870, 58871, 58872, 58873, 58874, 58875, 58876, 58877, 58878, 58879, 58880,
       58881, 58882, 58883, 58884, 58885, 58886, 58887, 58888, 58889, 58890, 58891, 58892, 58893, 58894,
       58895, 58896, 58897, 58898, 58899, 58900, 58901, 58902, 58903, 58904, 58905, 58906, 58907, 58908,
       58909, 58910, 58911, 58912, 58913, 58914, 58915, 58916, 58917, 58918, 58919, 58920, 58921, 58922,
       58923, 58924, 58925, 58926, 58927, 58928, 58929, 58930, 58931, 58932, 58933, 58934, 58935, 58936,
       58937, 58938, 58939, 58940, 58941, 58942, 58943, 58944, 58945, 58946, 58947, 58948, 58949, 12353,
       12354, 12355, 12356, 12357, 12358, 12359, 12360, 12361, 12362, 12363, 12364, 12365, 12366, 12367,
       12368, 12369, 12370, 12371, 12372, 12373, 12374, 12375, 12376, 12377, 12378, 12379, 12380, 12381,
       12382, 12383, 12384, 12385, 12386, 12387, 12388, 12389, 12390, 12391, 12392, 12393, 12394, 12395,
       12396, 12397, 12398, 12399, 12400, 12401, 12402, 12403, 12404, 12405, 12406, 12407, 12408, 12409,
       12410, 12411, 12412, 12413, 12414, 12415, 12416, 12417, 12418, 12419, 12420, 12421, 12422, 12423,
       12424, 12425, 12426, 12427, 12428, 12429, 12430, 12431, 12432, 12433, 12434, 12435, 59250, 59251,
       59252, 59253, 59254, 59255, 59256, 59257, 59258, 59259, 59260, 58950, 58951, 58952, 58953, 58954,
       58955, 58956, 58957, 58958, 58959, 58960, 58961, 58962, 58963, 58964, 58965, 58966, 58967, 58968,
       58969, 58970, 58971, 58972, 58973, 58974, 58975, 58976, 58977, 58978, 58979, 58980, 58981, 58982,
       58983, 58984, 58985, 58986, 58987, 58988, 58989, 58990, 58991, 58992, 58993, 58994, 58995, 58996,
       58997, 58998, 58999, 59000, 59001, 59002, 59003, 59004, 59005, 59006, 59007, 59008, 59009, 59010,
       59011, 59012, 59013, 59014, 59015, 59016, 59017, 59018, 59019, 59020, 59021, 59022, 59023, 59024,
       59025, 59026, 59027, 59028, 59029, 59030, 59031, 59032, 59033, 59034, 59035, 59036, 59037, 59038,
       59039, 59040, 59041, 59042, 59043, 59044, 59045, 12449, 12450, 12451, 12452, 12453, 12454, 12455,
       12456, 12457, 12458, 12459, 12460, 12461, 12462, 12463, 12464, 12465, 12466, 12467, 12468, 12469,
       12470, 12471, 12472, 12473, 12474, 12475, 12476, 12477, 12478, 12479, 12480, 12481, 12482, 12483,
       12484, 12485, 12486, 12487, 12488, 12489, 12490, 12491, 12492, 12493, 12494, 12495, 12496, 12497,
       12498, 12499, 12500, 12501, 12502, 12503, 12504, 12505, 12506, 12507, 12508, 12509, 12510, 12511,
       12512, 12513, 12514, 12515, 12516, 12517, 12518, 12519, 12520, 12521, 12522, 12523, 12524, 12525,
       12526, 12527, 12528, 12529, 12530, 12531, 12532, 12533, 12534, 59261, 59262, 59263, 59264, 59265,
       59266, 59267, 59268, 59046, 59047, 59048, 59049, 59050, 59051, 59052, 59053, 59054, 59055, 59056,
       59057, 59058, 59059, 59060, 59061, 59062, 59063, 59064, 59065, 59066, 59067, 59068, 59069, 59070,
       59071, 59072, 59073, 59074, 59075, 59076, 59077, 59078, 59079, 59080, 59081, 59082, 59083, 59084,
       59085, 59086, 59087, 59088, 59089, 59090, 59091, 59092, 59093, 59094, 59095, 59096, 59097, 59098,
       59099, 59100, 59101, 59102, 59103, 59104, 59105, 59106, 59107, 59108, 59109, 59110, 59111, 59112,
       59113, 59114, 59115, 59116, 59117, 59118, 59119, 59120, 59121, 59122, 59123, 59124, 59125, 59126,
       59127, 59128, 59129, 59130, 59131, 59132, 59133, 59134, 59135, 59136, 59137, 59138, 59139, 59140,
       59141, 913, 914, 915, 916, 917, 918, 919, 920, 921, 922, 923, 924, 925, 926, 927, 928, 929, 931, 932,
       933, 934, 935, 936, 937, 59269, 59270, 59271, 59272, 59273, 59274, 59275, 59276, 945, 946, 947, 948,
       949, 950, 951, 952, 953, 954, 955, 956, 957, 958, 959, 960, 961, 963, 964, 965, 966, 967, 968, 969,
       59277, 59278, 59279, 59280, 59281, 59282, 59283, 65077, 65078, 65081, 65082, 65087, 65088, 65085,
       65086, 65089, 65090, 65091, 65092, 59284, 59285, 65083, 65084, 65079, 65080, 65073, 59286, 65075,
       65076, 59287, 59288, 59289, 59290, 59291, 59292, 59293, 59294, 59295, 59142, 59143, 59144, 59145,
       59146, 59147, 59148, 59149, 59150, 59151, 59152, 59153, 59154, 59155, 59156, 59157, 59158, 59159,
       59160, 59161, 59162, 59163, 59164, 59165, 59166, 59167, 59168, 59169, 59170, 59171, 59172, 59173,
       59174, 59175, 59176, 59177, 59178, 59179, 59180, 59181, 59182, 59183, 59184, 59185, 59186, 59187,
       59188, 59189, 59190, 59191, 59192, 59193, 59194, 59195, 59196, 59197, 59198, 59199, 59200, 59201,
       59202, 59203, 59204, 59205, 59206, 59207, 59208, 59209, 59210, 59211, 59212, 59213, 59214, 59215,
       59216, 59217, 59218, 59219, 59220, 59221, 59222, 59223, 59224, 59225, 59226, 59227, 59228, 59229,
       59230, 59231, 59232, 59233, 59234, 59235, 59236, 59237, 1040, 1041, 1042, 1043, 1044, 1045, 1025,
       1046, 1047, 1048, 1049, 1050, 1051, 1052, 1053, 1054, 1055, 1056, 1057, 1058, 1059, 1060, 1061, 1062,
       1063, 1064, 1065, 1066, 1067, 1068, 1069, 1070, 1071, 59296, 59297, 59298, 59299, 59300, 59301,
       59302, 59303, 59304, 59305, 59306, 59307, 59308, 59309, 59310, 1072, 1073, 1074, 1075, 1076, 1077,
       1105, 1078, 1079, 1080, 1081, 1082, 1083, 1084, 1085, 1086, 1087, 1088, 1089, 1090, 1091, 1092, 1093,
       1094, 1095, 1096, 1097, 1098, 1099, 1100, 1101, 1102, 1103, 59311, 59312, 59313, 59314, 59315, 59316,
       59317, 59318, 59319, 59320, 59321, 59322, 59323, 714, 715, 729, 8211, 8213, 8229, 8245, 8453, 8457,
       8598, 8599, 8600, 8601, 8725, 8735, 8739, 8786, 8806, 8807, 8895, 9552, 9553, 9554, 9555, 9556, 9557,
       9558, 9559, 9560, 9561, 9562, 9563, 9564, 9565, 9566, 9567, 9568, 9569, 9570, 9571, 9572, 9573, 9574,
       9575, 9576, 9577, 9578, 9579, 9580, 9581, 9582, 9583, 9584, 9585, 9586, 9587, 9601, 9602, 9603, 9604,
       9605, 9606, 9607, 9608, 9609, 9610, 9611, 9612, 9613, 9614, 9615, 9619, 9620, 9621, 9660, 9661, 9698,
       9699, 9700, 9701, 9737, 8853, 12306, 12317, 12318, 59324, 59325, 59326, 59327, 59328, 59329, 59330,
       59331, 59332, 59333, 59334, 257, 225, 462, 224, 275, 233, 283, 232, 299, 237, 464, 236, 333, 243,
       466, 242, 363, 250, 468, 249, 470, 472, 474, 476, 252, 234, 593, 59335, 324, 328, 505, 609, 59337,
       59338, 59339, 59340, 12549, 12550, 12551, 12552, 12553, 12554, 12555, 12556, 12557, 12558, 12559,
       12560, 12561, 12562, 12563, 12564, 12565, 12566, 12567, 12568, 12569, 12570, 12571, 12572, 12573,
       12574, 12575, 12576, 12577, 12578, 12579, 12580, 12581, 12582, 12583, 12584, 12585, 59341, 59342,
       59343, 59344, 59345, 59346, 59347, 59348, 59349, 59350, 59351, 59352, 59353, 59354, 59355, 59356,
       59357, 59358, 59359, 59360, 59361, 12321, 12322, 12323, 12324, 12325, 12326, 12327, 12328, 12329,
       12963, 13198, 13199, 13212, 13213, 13214, 13217, 13252, 13262, 13265, 13266, 13269, 65072, 65506,
       65508, 59362, 8481, 12849, 59363, 8208, 59364, 59365, 59366, 12540, 12443, 12444, 12541, 12542,
       12294, 12445, 12446, 65097, 65098, 65099, 65100, 65101, 65102, 65103, 65104, 65105, 65106, 65108,
       65109, 65110, 65111, 65113, 65114, 65115, 65116, 65117, 65118, 65119, 65120, 65121, 65122, 65123,
       65124, 65125, 65126, 65128, 65129, 65130, 65131, 12350, 12272, 12273, 12274, 12275, 12276, 12277,
       12278, 12279, 12280, 12281, 12282, 12283, 12295, 59380, 59381, 59382, 59383, 59384, 59385, 59386,
       59387, 59388, 59389, 59390, 59391, 59392, 9472, 9473, 9474, 9475, 9476, 9477, 9478, 9479, 9480, 9481,
       9482, 9483, 9484, 9485, 9486, 9487, 9488, 9489, 9490, 9491, 9492, 9493, 9494, 9495, 9496, 9497, 9498,
       9499, 9500, 9501, 9502, 9503, 9504, 9505, 9506, 9507, 9508, 9509, 9510, 9511, 9512, 9513, 9514, 9515,
       9516, 9517, 9518, 9519, 9520, 9521, 9522, 9523, 9524, 9525, 9526, 9527, 9528, 9529, 9530, 9531, 9532,
       9533, 9534, 9535, 9536, 9537, 9538, 9539, 9540, 9541, 9542, 9543, 9544, 9545, 9546, 9547, 59393,
       59394, 59395, 59396, 59397, 59398, 59399, 59400, 59401, 59402, 59403, 59404, 59405, 59406, 59407,
       29404, 29405, 29407, 29410, 29411, 29412, 29413, 29414, 29415, 29418, 29419, 29429, 29430, 29433,
       29437, 29438, 29439, 29440, 29442, 29444, 29445, 29446, 29447, 29448, 29449, 29451, 29452, 29453,
       29455, 29456, 29457, 29458, 29460, 29464, 29465, 29466, 29471, 29472, 29475, 29476, 29478, 29479,
       29480, 29485, 29487, 29488, 29490, 29491, 29493, 29494, 29498, 29499, 29500, 29501, 29504, 29505,
       29506, 29507, 29508, 29509, 29510, 29511, 29512, 29513, 29514, 29515, 29516, 29518, 29519, 29521,
       29523, 29524, 29525, 29526, 29528, 29529, 29530, 29531, 29532, 29533, 29534, 29535, 29537, 29538,
       29539, 29540, 29541, 29542, 29543, 29544, 29545, 29546, 29547, 29550, 29552, 29553, 57344, 57345,
       57346, 57347, 57348, 57349, 57350, 57351, 57352, 57353, 57354, 57355, 57356, 57357, 57358, 57359,
       57360, 57361, 57362, 57363, 57364, 57365, 57366, 57367, 57368, 57369, 57370, 57371, 57372, 57373,
       57374, 57375, 57376, 57377, 57378, 57379, 57380, 57381, 57382, 57383, 57384, 57385, 57386, 57387,
       57388, 57389, 57390, 57391, 57392, 57393, 57394, 57395, 57396, 57397, 57398, 57399, 57400, 57401,
       57402, 57403, 57404, 57405, 57406, 57407, 57408, 57409, 57410, 57411, 57412, 57413, 57414, 57415,
       57416, 57417, 57418, 57419, 57420, 57421, 57422, 57423, 57424, 57425, 57426, 57427, 57428, 57429,
       57430, 57431, 57432, 57433, 57434, 57435, 57436, 57437, 29554, 29555, 29556, 29557, 29558, 29559,
       29560, 29561, 29562, 29563, 29564, 29565, 29567, 29568, 29569, 29570, 29571, 29573, 29574, 29576,
       29578, 29580, 29581, 29583, 29584, 29586, 29587, 29588, 29589, 29591, 29592, 29593, 29594, 29596,
       29597, 29598, 29600, 29601, 29603, 29604, 29605, 29606, 29607, 29608, 29610, 29612, 29613, 29617,
       29620, 29621, 29622, 29624, 29625, 29628, 29629, 29630, 29631, 29633, 29635, 29636, 29637, 29638,
       29639, 29643, 29644, 29646, 29650, 29651, 29652, 29653, 29654, 29655, 29656, 29658, 29659, 29660,
       29661, 29663, 29665, 29666, 29667, 29668, 29670, 29672, 29674, 29675, 29676, 29678, 29679, 29680,
       29681, 29683, 29684, 29685, 29686, 29687, 57438, 57439, 57440, 57441, 57442, 57443, 57444, 57445,
       57446, 57447, 57448, 57449, 57450, 57451, 57452, 57453, 57454, 57455, 57456, 57457, 57458, 57459,
       57460, 57461, 57462, 57463, 57464, 57465, 57466, 57467, 57468, 57469, 57470, 57471, 57472, 57473,
       57474, 57475, 57476, 57477, 57478, 57479, 57480, 57481, 57482, 57483, 57484, 57485, 57486, 57487,
       57488, 57489, 57490, 57491, 57492, 57493, 57494, 57495, 57496, 57497, 57498, 57499, 57500, 57501,
       57502, 57503, 57504, 57505, 57506, 57507, 57508, 57509, 57510, 57511, 57512, 57513, 57514, 57515,
       57516, 57517, 57518, 57519, 57520, 57521, 57522, 57523, 57524, 57525, 57526, 57527, 57528, 57529,
       57530, 57531, 29688, 29689, 29690, 29691, 29692, 29693, 29694, 29695, 29696, 29697, 29698, 29700,
       29703, 29704, 29707, 29708, 29709, 29710, 29713, 29714, 29715, 29716, 29717, 29718, 29719, 29720,
       29721, 29724, 29725, 29726, 29727, 29728, 29729, 29731, 29732, 29735, 29737, 29739, 29741, 29743,
       29745, 29746, 29751, 29752, 29753, 29754, 29755, 29757, 29758, 29759, 29760, 29762, 29763, 29764,
       29765, 29766, 29767, 29768, 29769, 29770, 29771, 29772, 29773, 29774, 29775, 29776, 29777, 29778,
       29779, 29780, 29782, 29784, 29789, 29792, 29793, 29794, 29795, 29796, 29797, 29798, 29799, 29800,
       29801, 29802, 29803, 29804, 29806, 29807, 29809, 29810, 29811, 29812, 29813, 29816, 29817, 29818,
       57532, 57533, 57534, 57535, 57536, 57537, 57538, 57539, 57540, 57541, 57542, 57543, 57544, 57545,
       57546, 57547, 57548, 57549, 57550, 57551, 57552, 57553, 57554, 57555, 57556, 57557, 57558, 57559,
       57560, 57561, 57562, 57563, 57564, 57565, 57566, 57567, 57568, 57569, 57570, 57571, 57572, 57573,
       57574, 57575, 57576, 57577, 57578, 57579, 57580, 57581, 57582, 57583, 57584, 57585, 57586, 57587,
       57588, 57589, 57590, 57591, 57592, 57593, 57594, 57595, 57596, 57597, 57598, 57599, 57600, 57601,
       57602, 57603, 57604, 57605, 57606, 57607, 57608, 57609, 57610, 57611, 57612, 57613, 57614, 57615,
       57616, 57617, 57618, 57619, 57620, 57621, 57622, 57623, 57624, 57625, 29819, 29820, 29821, 29823,
       29826, 29828, 29829, 29830, 29832, 29833, 29834, 29836, 29837, 29839, 29841, 29842, 29843, 29844,
       29845, 29846, 29847, 29848, 29849, 29850, 29851, 29853, 29855, 29856, 29857, 29858, 29859, 29860,
       29861, 29862, 29866, 29867, 29868, 29869, 29870, 29871, 29872, 29873, 29874, 29875, 29876, 29877,
       29878, 29879, 29880, 29881, 29883, 29884, 29885, 29886, 29887, 29888, 29889, 29890, 29891, 29892,
       29893, 29894, 29895, 29896, 29897, 29898, 29899, 29900, 29901, 29902, 29903, 29904, 29905, 29907,
       29908, 29909, 29910, 29911, 29912, 29913, 29914, 29915, 29917, 29919, 29921, 29925, 29927, 29928,
       29929, 29930, 29931, 29932, 29933, 29936, 29937, 29938, 57626, 57627, 57628, 57629, 57630, 57631,
       57632, 57633, 57634, 57635, 57636, 57637, 57638, 57639, 57640, 57641, 57642, 57643, 57644, 57645,
       57646, 57647, 57648, 57649, 57650, 57651, 57652, 57653, 57654, 57655, 57656, 57657, 57658, 57659,
       57660, 57661, 57662, 57663, 57664, 57665, 57666, 57667, 57668, 57669, 57670, 57671, 57672, 57673,
       57674, 57675, 57676, 57677, 57678, 57679, 57680, 57681, 57682, 57683, 57684, 57685, 57686, 57687,
       57688, 57689, 57690, 57691, 57692, 57693, 57694, 57695, 57696, 57697, 57698, 57699, 57700, 57701,
       57702, 57703, 57704, 57705, 57706, 57707, 57708, 57709, 57710, 57711, 57712, 57713, 57714, 57715,
       57716, 57717, 57718, 57719, 29939, 29941, 29944, 29945, 29946, 29947, 29948, 29949, 29950, 29952,
       29953, 29954, 29955, 29957, 29958, 29959, 29960, 29961, 29962, 29963, 29964, 29966, 29968, 29970,
       29972, 29973, 29974, 29975, 29979, 29981, 29982, 29984, 29985, 29986, 29987, 29988, 29990, 29991,
       29994, 29998, 30004, 30006, 30009, 30012, 30013, 30015, 30017, 30018, 30019, 30020, 30022, 30023,
       30025, 30026, 30029, 30032, 30033, 30034, 30035, 30037, 30038, 30039, 30040, 30045, 30046, 30047,
       30048, 30049, 30050, 30051, 30052, 30055, 30056, 30057, 30059, 30060, 30061, 30062, 30063, 30064,
       30065, 30067, 30069, 30070, 30071, 30074, 30075, 30076, 30077, 30078, 30080, 30081, 30082, 30084,
       30085, 30087, 57720, 57721, 57722, 57723, 57724, 57725, 57726, 57727, 57728, 57729, 57730, 57731,
       57732, 57733, 57734, 57735, 57736, 57737, 57738, 57739, 57740, 57741, 57742, 57743, 57744, 57745,
       57746, 57747, 57748, 57749, 57750, 57751, 57752, 57753, 57754, 57755, 57756, 57757, 57758, 57759,
       57760, 57761, 57762, 57763, 57764, 57765, 57766, 57767, 57768, 57769, 57770, 57771, 57772, 57773,
       57774, 57775, 57776, 57777, 57778, 57779, 57780, 57781, 57782, 57783, 57784, 57785, 57786, 57787,
       57788, 57789, 57790, 57791, 57792, 57793, 57794, 57795, 57796, 57797, 57798, 57799, 57800, 57801,
       57802, 57803, 57804, 57805, 57806, 57807, 57808, 57809, 57810, 57811, 57812, 57813, 30088, 30089,
       30090, 30092, 30093, 30094, 30096, 30099, 30101, 30104, 30107, 30108, 30110, 30114, 30118, 30119,
       30120, 30121, 30122, 30125, 30134, 30135, 30138, 30139, 30143, 30144, 30145, 30150, 30155, 30156,
       30158, 30159, 30160, 30161, 30163, 30167, 30169, 30170, 30172, 30173, 30175, 30176, 30177, 30181,
       30185, 30188, 30189, 30190, 30191, 30194, 30195, 30197, 30198, 30199, 30200, 30202, 30203, 30205,
       30206, 30210, 30212, 30214, 30215, 30216, 30217, 30219, 30221, 30222, 30223, 30225, 30226, 30227,
       30228, 30230, 30234, 30236, 30237, 30238, 30241, 30243, 30247, 30248, 30252, 30254, 30255, 30257,
       30258, 30262, 30263, 30265, 30266, 30267, 30269, 30273, 30274, 30276, 57814, 57815, 57816, 57817,
       57818, 57819, 57820, 57821, 57822, 57823, 57824, 57825, 57826, 57827, 57828, 57829, 57830, 57831,
       57832, 57833, 57834, 57835, 57836, 57837, 57838, 57839, 57840, 57841, 57842, 57843, 57844, 57845,
       57846, 57847, 57848, 57849, 57850, 57851, 57852, 57853, 57854, 57855, 57856, 57857, 57858, 57859,
       57860, 57861, 57862, 57863, 57864, 57865, 57866, 57867, 57868, 57869, 57870, 57871, 57872, 57873,
       57874, 57875, 57876, 57877, 57878, 57879, 57880, 57881, 57882, 57883, 57884, 57885, 57886, 57887,
       57888, 57889, 57890, 57891, 57892, 57893, 57894, 57895, 57896, 57897, 57898, 57899, 57900, 57901,
       57902, 57903, 57904, 57905, 57906, 57907, 30277, 30278, 30279, 30280, 30281, 30282, 30283, 30286,
       30287, 30288, 30289, 30290, 30291, 30293, 30295, 30296, 30297, 30298, 30299, 30301, 30303, 30304,
       30305, 30306, 30308, 30309, 30310, 30311, 30312, 30313, 30314, 30316, 30317, 30318, 30320, 30321,
       30322, 30323, 30324, 30325, 30326, 30327, 30329, 30330, 30332, 30335, 30336, 30337, 30339, 30341,
       30345, 30346, 30348, 30349, 30351, 30352, 30354, 30356, 30357, 30359, 30360, 30362, 30363, 30364,
       30365, 30366, 30367, 30368, 30369, 30370, 30371, 30373, 30374, 30375, 30376, 30377, 30378, 30379,
       30380, 30381, 30383, 30384, 30387, 30389, 30390, 30391, 30392, 30393, 30394, 30395, 30396, 30397,
       30398, 30400, 30401, 30403, 21834, 38463, 22467, 25384, 21710, 21769, 21696, 30353, 30284, 34108,
       30702, 33406, 30861, 29233, 38552, 38797, 27688, 23433, 20474, 25353, 26263, 23736, 33018, 26696,
       32942, 26114, 30414, 20985, 25942, 29100, 32753, 34948, 20658, 22885, 25034, 28595, 33453, 25420,
       25170, 21485, 21543, 31494, 20843, 30116, 24052, 25300, 36299, 38774, 25226, 32793, 22365, 38712,
       32610, 29240, 30333, 26575, 30334, 25670, 20336, 36133, 25308, 31255, 26001, 29677, 25644, 25203,
       33324, 39041, 26495, 29256, 25198, 25292, 20276, 29923, 21322, 21150, 32458, 37030, 24110, 26758,
       27036, 33152, 32465, 26834, 30917, 34444, 38225, 20621, 35876, 33502, 32990, 21253, 35090, 21093,
       30404, 30407, 30409, 30411, 30412, 30419, 30421, 30425, 30426, 30428, 30429, 30430, 30432, 30433,
       30434, 30435, 30436, 30438, 30439, 30440, 30441, 30442, 30443, 30444, 30445, 30448, 30451, 30453,
       30454, 30455, 30458, 30459, 30461, 30463, 30464, 30466, 30467, 30469, 30470, 30474, 30476, 30478,
       30479, 30480, 30481, 30482, 30483, 30484, 30485, 30486, 30487, 30488, 30491, 30492, 30493, 30494,
       30497, 30499, 30500, 30501, 30503, 30506, 30507, 30508, 30510, 30512, 30513, 30514, 30515, 30516,
       30521, 30523, 30525, 30526, 30527, 30530, 30532, 30533, 30534, 30536, 30537, 30538, 30539, 30540,
       30541, 30542, 30543, 30546, 30547, 30548, 30549, 30550, 30551, 30552, 30553, 30556, 34180, 38649,
       20445, 22561, 39281, 23453, 25265, 25253, 26292, 35961, 40077, 29190, 26479, 30865, 24754, 21329,
       21271, 36744, 32972, 36125, 38049, 20493, 29384, 22791, 24811, 28953, 34987, 22868, 33519, 26412,
       31528, 23849, 32503, 29997, 27893, 36454, 36856, 36924, 40763, 27604, 37145, 31508, 24444, 30887,
       34006, 34109, 27605, 27609, 27606, 24065, 24199, 30201, 38381, 25949, 24330, 24517, 36767, 22721,
       33218, 36991, 38491, 38829, 36793, 32534, 36140, 25153, 20415, 21464, 21342, 36776, 36777, 36779,
       36941, 26631, 24426, 33176, 34920, 40150, 24971, 21035, 30250, 24428, 25996, 28626, 28392, 23486,
       25672, 20853, 20912, 26564, 19993, 31177, 39292, 28851, 30557, 30558, 30559, 30560, 30564, 30567,
       30569, 30570, 30573, 30574, 30575, 30576, 30577, 30578, 30579, 30580, 30581, 30582, 30583, 30584,
       30586, 30587, 30588, 30593, 30594, 30595, 30598, 30599, 30600, 30601, 30602, 30603, 30607, 30608,
       30611, 30612, 30613, 30614, 30615, 30616, 30617, 30618, 30619, 30620, 30621, 30622, 30625, 30627,
       30628, 30630, 30632, 30635, 30637, 30638, 30639, 30641, 30642, 30644, 30646, 30647, 30648, 30649,
       30650, 30652, 30654, 30656, 30657, 30658, 30659, 30660, 30661, 30662, 30663, 30664, 30665, 30666,
       30667, 30668, 30670, 30671, 30672, 30673, 30674, 30675, 30676, 30677, 30678, 30680, 30681, 30682,
       30685, 30686, 30687, 30688, 30689, 30692, 30149, 24182, 29627, 33760, 25773, 25320, 38069, 27874,
       21338, 21187, 25615, 38082, 31636, 20271, 24091, 33334, 33046, 33162, 28196, 27850, 39539, 25429,
       21340, 21754, 34917, 22496, 19981, 24067, 27493, 31807, 37096, 24598, 25830, 29468, 35009, 26448,
       25165, 36130, 30572, 36393, 37319, 24425, 33756, 34081, 39184, 21442, 34453, 27531, 24813, 24808,
       28799, 33485, 33329, 20179, 27815, 34255, 25805, 31961, 27133, 26361, 33609, 21397, 31574, 20391,
       20876, 27979, 23618, 36461, 25554, 21449, 33580, 33590, 26597, 30900, 25661, 23519, 23700, 24046,
       35815, 25286, 26612, 35962, 25600, 25530, 34633, 39307, 35863, 32544, 38130, 20135, 38416, 39076,
       26124, 29462, 30694, 30696, 30698, 30703, 30704, 30705, 30706, 30708, 30709, 30711, 30713, 30714,
       30715, 30716, 30723, 30724, 30725, 30726, 30727, 30728, 30730, 30731, 30734, 30735, 30736, 30739,
       30741, 30745, 30747, 30750, 30752, 30753, 30754, 30756, 30760, 30762, 30763, 30766, 30767, 30769,
       30770, 30771, 30773, 30774, 30781, 30783, 30785, 30786, 30787, 30788, 30790, 30792, 30793, 30794,
       30795, 30797, 30799, 30801, 30803, 30804, 30808, 30809, 30810, 30811, 30812, 30814, 30815, 30816,
       30817, 30818, 30819, 30820, 30821, 30822, 30823, 30824, 30825, 30831, 30832, 30833, 30834, 30835,
       30836, 30837, 30838, 30840, 30841, 30842, 30843, 30845, 30846, 30847, 30848, 30849, 30850, 30851,
       22330, 23581, 24120, 38271, 20607, 32928, 21378, 25950, 30021, 21809, 20513, 36229, 25220, 38046,
       26397, 22066, 28526, 24034, 21557, 28818, 36710, 25199, 25764, 25507, 24443, 28552, 37108, 33251,
       36784, 23576, 26216, 24561, 27785, 38472, 36225, 34924, 25745, 31216, 22478, 27225, 25104, 21576,
       20056, 31243, 24809, 28548, 35802, 25215, 36894, 39563, 31204, 21507, 30196, 25345, 21273, 27744,
       36831, 24347, 39536, 32827, 40831, 20360, 23610, 36196, 32709, 26021, 28861, 20805, 20914, 34411,
       23815, 23456, 25277, 37228, 30068, 36364, 31264, 24833, 31609, 20167, 32504, 30597, 19985, 33261,
       21021, 20986, 27249, 21416, 36487, 38148, 38607, 28353, 38500, 26970, 30852, 30853, 30854, 30856,
       30858, 30859, 30863, 30864, 30866, 30868, 30869, 30870, 30873, 30877, 30878, 30880, 30882, 30884,
       30886, 30888, 30889, 30890, 30891, 30892, 30893, 30894, 30895, 30901, 30902, 30903, 30904, 30906,
       30907, 30908, 30909, 30911, 30912, 30914, 30915, 30916, 30918, 30919, 30920, 30924, 30925, 30926,
       30927, 30929, 30930, 30931, 30934, 30935, 30936, 30938, 30939, 30940, 30941, 30942, 30943, 30944,
       30945, 30946, 30947, 30948, 30949, 30950, 30951, 30953, 30954, 30955, 30957, 30958, 30959, 30960,
       30961, 30963, 30965, 30966, 30968, 30969, 30971, 30972, 30973, 30974, 30975, 30976, 30978, 30979,
       30980, 30982, 30983, 30984, 30985, 30986, 30987, 30988, 30784, 20648, 30679, 25616, 35302, 22788,
       25571, 24029, 31359, 26941, 20256, 33337, 21912, 20018, 30126, 31383, 24162, 24202, 38383, 21019,
       21561, 28810, 25462, 38180, 22402, 26149, 26943, 37255, 21767, 28147, 32431, 34850, 25139, 32496,
       30133, 33576, 30913, 38604, 36766, 24904, 29943, 35789, 27492, 21050, 36176, 27425, 32874, 33905,
       22257, 21254, 20174, 19995, 20945, 31895, 37259, 31751, 20419, 36479, 31713, 31388, 25703, 23828,
       20652, 33030, 30209, 31929, 28140, 32736, 26449, 23384, 23544, 30923, 25774, 25619, 25514, 25387,
       38169, 25645, 36798, 31572, 30249, 25171, 22823, 21574, 27513, 20643, 25140, 24102, 27526, 20195,
       36151, 34955, 24453, 36910, 30989, 30990, 30991, 30992, 30993, 30994, 30996, 30997, 30998, 30999,
       31000, 31001, 31002, 31003, 31004, 31005, 31007, 31008, 31009, 31010, 31011, 31013, 31014, 31015,
       31016, 31017, 31018, 31019, 31020, 31021, 31022, 31023, 31024, 31025, 31026, 31027, 31029, 31030,
       31031, 31032, 31033, 31037, 31039, 31042, 31043, 31044, 31045, 31047, 31050, 31051, 31052, 31053,
       31054, 31055, 31056, 31057, 31058, 31060, 31061, 31064, 31065, 31073, 31075, 31076, 31078, 31081,
       31082, 31083, 31084, 31086, 31088, 31089, 31090, 31091, 31092, 31093, 31094, 31097, 31099, 31100,
       31101, 31102, 31103, 31106, 31107, 31110, 31111, 31112, 31113, 31115, 31116, 31117, 31118, 31120,
       31121, 31122, 24608, 32829, 25285, 20025, 21333, 37112, 25528, 32966, 26086, 27694, 20294, 24814,
       28129, 35806, 24377, 34507, 24403, 25377, 20826, 33633, 26723, 20992, 25443, 36424, 20498, 23707,
       31095, 23548, 21040, 31291, 24764, 36947, 30423, 24503, 24471, 30340, 36460, 28783, 30331, 31561,
       30634, 20979, 37011, 22564, 20302, 28404, 36842, 25932, 31515, 29380, 28068, 32735, 23265, 25269,
       24213, 22320, 33922, 31532, 24093, 24351, 36882, 32532, 39072, 25474, 28359, 30872, 28857, 20856,
       38747, 22443, 30005, 20291, 30008, 24215, 24806, 22880, 28096, 27583, 30857, 21500, 38613, 20939,
       20993, 25481, 21514, 38035, 35843, 36300, 29241, 30879, 34678, 36845, 35853, 21472, 31123, 31124,
       31125, 31126, 31127, 31128, 31129, 31131, 31132, 31133, 31134, 31135, 31136, 31137, 31138, 31139,
       31140, 31141, 31142, 31144, 31145, 31146, 31147, 31148, 31149, 31150, 31151, 31152, 31153, 31154,
       31156, 31157, 31158, 31159, 31160, 31164, 31167, 31170, 31172, 31173, 31175, 31176, 31178, 31180,
       31182, 31183, 31184, 31187, 31188, 31190, 31191, 31193, 31194, 31195, 31196, 31197, 31198, 31200,
       31201, 31202, 31205, 31208, 31210, 31212, 31214, 31217, 31218, 31219, 31220, 31221, 31222, 31223,
       31225, 31226, 31228, 31230, 31231, 31233, 31236, 31237, 31239, 31240, 31241, 31242, 31244, 31247,
       31248, 31249, 31250, 31251, 31253, 31254, 31256, 31257, 31259, 31260, 19969, 30447, 21486, 38025,
       39030, 40718, 38189, 23450, 35746, 20002, 19996, 20908, 33891, 25026, 21160, 26635, 20375, 24683,
       20923, 27934, 20828, 25238, 26007, 38497, 35910, 36887, 30168, 37117, 30563, 27602, 29322, 29420,
       35835, 22581, 30585, 36172, 26460, 38208, 32922, 24230, 28193, 22930, 31471, 30701, 38203, 27573,
       26029, 32526, 22534, 20817, 38431, 23545, 22697, 21544, 36466, 25958, 39039, 22244, 38045, 30462,
       36929, 25479, 21702, 22810, 22842, 22427, 36530, 26421, 36346, 33333, 21057, 24816, 22549, 34558,
       23784, 40517, 20420, 39069, 35769, 23077, 24694, 21380, 25212, 36943, 37122, 39295, 24681, 32780,
       20799, 32819, 23572, 39285, 27953, 20108, 31261, 31263, 31265, 31266, 31268, 31269, 31270, 31271,
       31272, 31273, 31274, 31275, 31276, 31277, 31278, 31279, 31280, 31281, 31282, 31284, 31285, 31286,
       31288, 31290, 31294, 31296, 31297, 31298, 31299, 31300, 31301, 31303, 31304, 31305, 31306, 31307,
       31308, 31309, 31310, 31311, 31312, 31314, 31315, 31316, 31317, 31318, 31320, 31321, 31322, 31323,
       31324, 31325, 31326, 31327, 31328, 31329, 31330, 31331, 31332, 31333, 31334, 31335, 31336, 31337,
       31338, 31339, 31340, 31341, 31342, 31343, 31345, 31346, 31347, 31349, 31355, 31356, 31357, 31358,
       31362, 31365, 31367, 31369, 31370, 31371, 31372, 31374, 31375, 31376, 31379, 31380, 31385, 31386,
       31387, 31390, 31393, 31394, 36144, 21457, 32602, 31567, 20240, 20047, 38400, 27861, 29648, 34281,
       24070, 30058, 32763, 27146, 30718, 38034, 32321, 20961, 28902, 21453, 36820, 33539, 36137, 29359,
       39277, 27867, 22346, 33459, 26041, 32938, 25151, 38450, 22952, 20223, 35775, 32442, 25918, 33778,
       38750, 21857, 39134, 32933, 21290, 35837, 21536, 32954, 24223, 27832, 36153, 33452, 37210, 21545,
       27675, 20998, 32439, 22367, 28954, 27774, 31881, 22859, 20221, 24575, 24868, 31914, 20016, 23553,
       26539, 34562, 23792, 38155, 39118, 30127, 28925, 36898, 20911, 32541, 35773, 22857, 20964, 20315,
       21542, 22827, 25975, 32932, 23413, 25206, 25282, 36752, 24133, 27679, 31526, 20239, 20440, 26381,
       31395, 31396, 31399, 31401, 31402, 31403, 31406, 31407, 31408, 31409, 31410, 31412, 31413, 31414,
       31415, 31416, 31417, 31418, 31419, 31420, 31421, 31422, 31424, 31425, 31426, 31427, 31428, 31429,
       31430, 31431, 31432, 31433, 31434, 31436, 31437, 31438, 31439, 31440, 31441, 31442, 31443, 31444,
       31445, 31447, 31448, 31450, 31451, 31452, 31453, 31457, 31458, 31460, 31463, 31464, 31465, 31466,
       31467, 31468, 31470, 31472, 31473, 31474, 31475, 31476, 31477, 31478, 31479, 31480, 31483, 31484,
       31486, 31488, 31489, 31490, 31493, 31495, 31497, 31500, 31501, 31502, 31504, 31506, 31507, 31510,
       31511, 31512, 31514, 31516, 31517, 31519, 31521, 31522, 31523, 31527, 31529, 31533, 28014, 28074,
       31119, 34993, 24343, 29995, 25242, 36741, 20463, 37340, 26023, 33071, 33105, 24220, 33104, 36212,
       21103, 35206, 36171, 22797, 20613, 20184, 38428, 29238, 33145, 36127, 23500, 35747, 38468, 22919,
       32538, 21648, 22134, 22030, 35813, 25913, 27010, 38041, 30422, 28297, 24178, 29976, 26438, 26577,
       31487, 32925, 36214, 24863, 31174, 25954, 36195, 20872, 21018, 38050, 32568, 32923, 32434, 23703,
       28207, 26464, 31705, 30347, 39640, 33167, 32660, 31957, 25630, 38224, 31295, 21578, 21733, 27468,
       25601, 25096, 40509, 33011, 30105, 21106, 38761, 33883, 26684, 34532, 38401, 38548, 38124, 20010,
       21508, 32473, 26681, 36319, 32789, 26356, 24218, 32697, 31535, 31536, 31538, 31540, 31541, 31542,
       31543, 31545, 31547, 31549, 31551, 31552, 31553, 31554, 31555, 31556, 31558, 31560, 31562, 31565,
       31566, 31571, 31573, 31575, 31577, 31580, 31582, 31583, 31585, 31587, 31588, 31589, 31590, 31591,
       31592, 31593, 31594, 31595, 31596, 31597, 31599, 31600, 31603, 31604, 31606, 31608, 31610, 31612,
       31613, 31615, 31617, 31618, 31619, 31620, 31622, 31623, 31624, 31625, 31626, 31627, 31628, 31630,
       31631, 31633, 31634, 31635, 31638, 31640, 31641, 31642, 31643, 31646, 31647, 31648, 31651, 31652,
       31653, 31662, 31663, 31664, 31666, 31667, 31669, 31670, 31671, 31673, 31674, 31675, 31676, 31677,
       31678, 31679, 31680, 31682, 31683, 31684, 22466, 32831, 26775, 24037, 25915, 21151, 24685, 40858,
       20379, 36524, 20844, 23467, 24339, 24041, 27742, 25329, 36129, 20849, 38057, 21246, 27807, 33503,
       29399, 22434, 26500, 36141, 22815, 36764, 33735, 21653, 31629, 20272, 27837, 23396, 22993, 40723,
       21476, 34506, 39592, 35895, 32929, 25925, 39038, 22266, 38599, 21038, 29916, 21072, 23521, 25346,
       35074, 20054, 25296, 24618, 26874, 20851, 23448, 20896, 35266, 31649, 39302, 32592, 24815, 28748,
       36143, 20809, 24191, 36891, 29808, 35268, 22317, 30789, 24402, 40863, 38394, 36712, 39740, 35809,
       30328, 26690, 26588, 36330, 36149, 21053, 36746, 28378, 26829, 38149, 37101, 22269, 26524, 35065,
       36807, 21704, 31685, 31688, 31689, 31690, 31691, 31693, 31694, 31695, 31696, 31698, 31700, 31701,
       31702, 31703, 31704, 31707, 31708, 31710, 31711, 31712, 31714, 31715, 31716, 31719, 31720, 31721,
       31723, 31724, 31725, 31727, 31728, 31730, 31731, 31732, 31733, 31734, 31736, 31737, 31738, 31739,
       31741, 31743, 31744, 31745, 31746, 31747, 31748, 31749, 31750, 31752, 31753, 31754, 31757, 31758,
       31760, 31761, 31762, 31763, 31764, 31765, 31767, 31768, 31769, 31770, 31771, 31772, 31773, 31774,
       31776, 31777, 31778, 31779, 31780, 31781, 31784, 31785, 31787, 31788, 31789, 31790, 31791, 31792,
       31793, 31794, 31795, 31796, 31797, 31798, 31799, 31801, 31802, 31803, 31804, 31805, 31806, 31810,
       39608, 23401, 28023, 27686, 20133, 23475, 39559, 37219, 25000, 37039, 38889, 21547, 28085, 23506,
       20989, 21898, 32597, 32752, 25788, 25421, 26097, 25022, 24717, 28938, 27735, 27721, 22831, 26477,
       33322, 22741, 22158, 35946, 27627, 37085, 22909, 32791, 21495, 28009, 21621, 21917, 33655, 33743,
       26680, 31166, 21644, 20309, 21512, 30418, 35977, 38402, 27827, 28088, 36203, 35088, 40548, 36154,
       22079, 40657, 30165, 24456, 29408, 24680, 21756, 20136, 27178, 34913, 24658, 36720, 21700, 28888,
       34425, 40511, 27946, 23439, 24344, 32418, 21897, 20399, 29492, 21564, 21402, 20505, 21518, 21628,
       20046, 24573, 29786, 22774, 33899, 32993, 34676, 29392, 31946, 28246, 31811, 31812, 31813, 31814,
       31815, 31816, 31817, 31818, 31819, 31820, 31822, 31823, 31824, 31825, 31826, 31827, 31828, 31829,
       31830, 31831, 31832, 31833, 31834, 31835, 31836, 31837, 31838, 31839, 31840, 31841, 31842, 31843,
       31844, 31845, 31846, 31847, 31848, 31849, 31850, 31851, 31852, 31853, 31854, 31855, 31856, 31857,
       31858, 31861, 31862, 31863, 31864, 31865, 31866, 31870, 31871, 31872, 31873, 31874, 31875, 31876,
       31877, 31878, 31879, 31880, 31882, 31883, 31884, 31885, 31886, 31887, 31888, 31891, 31892, 31894,
       31897, 31898, 31899, 31904, 31905, 31907, 31910, 31911, 31912, 31913, 31915, 31916, 31917, 31919,
       31920, 31924, 31925, 31926, 31927, 31928, 31930, 31931, 24359, 34382, 21804, 25252, 20114, 27818,
       25143, 33457, 21719, 21326, 29502, 28369, 30011, 21010, 21270, 35805, 27088, 24458, 24576, 28142,
       22351, 27426, 29615, 26707, 36824, 32531, 25442, 24739, 21796, 30186, 35938, 28949, 28067, 23462,
       24187, 33618, 24908, 40644, 30970, 34647, 31783, 30343, 20976, 24822, 29004, 26179, 24140, 24653,
       35854, 28784, 25381, 36745, 24509, 24674, 34516, 22238, 27585, 24724, 24935, 21321, 24800, 26214,
       36159, 31229, 20250, 28905, 27719, 35763, 35826, 32472, 33636, 26127, 23130, 39746, 27985, 28151,
       35905, 27963, 20249, 28779, 33719, 25110, 24785, 38669, 36135, 31096, 20987, 22334, 22522, 26426,
       30072, 31293, 31215, 31637, 31935, 31936, 31938, 31939, 31940, 31942, 31945, 31947, 31950, 31951,
       31952, 31953, 31954, 31955, 31956, 31960, 31962, 31963, 31965, 31966, 31969, 31970, 31971, 31972,
       31973, 31974, 31975, 31977, 31978, 31979, 31980, 31981, 31982, 31984, 31985, 31986, 31987, 31988,
       31989, 31990, 31991, 31993, 31994, 31996, 31997, 31998, 31999, 32000, 32001, 32002, 32003, 32004,
       32005, 32006, 32007, 32008, 32009, 32011, 32012, 32013, 32014, 32015, 32016, 32017, 32018, 32019,
       32020, 32021, 32022, 32023, 32024, 32025, 32026, 32027, 32028, 32029, 32030, 32031, 32033, 32035,
       32036, 32037, 32038, 32040, 32041, 32042, 32044, 32045, 32046, 32048, 32049, 32050, 32051, 32052,
       32053, 32054, 32908, 39269, 36857, 28608, 35749, 40481, 23020, 32489, 32521, 21513, 26497, 26840,
       36753, 31821, 38598, 21450, 24613, 30142, 27762, 21363, 23241, 32423, 25380, 20960, 33034, 24049,
       34015, 25216, 20864, 23395, 20238, 31085, 21058, 24760, 27982, 23492, 23490, 35745, 35760, 26082,
       24524, 38469, 22931, 32487, 32426, 22025, 26551, 22841, 20339, 23478, 21152, 33626, 39050, 36158,
       30002, 38078, 20551, 31292, 20215, 26550, 39550, 23233, 27516, 30417, 22362, 23574, 31546, 38388,
       29006, 20860, 32937, 33392, 22904, 32516, 33575, 26816, 26604, 30897, 30839, 25315, 25441, 31616,
       20461, 21098, 20943, 33616, 27099, 37492, 36341, 36145, 35265, 38190, 31661, 20214, 32055, 32056,
       32057, 32058, 32059, 32060, 32061, 32062, 32063, 32064, 32065, 32066, 32067, 32068, 32069, 32070,
       32071, 32072, 32073, 32074, 32075, 32076, 32077, 32078, 32079, 32080, 32081, 32082, 32083, 32084,
       32085, 32086, 32087, 32088, 32089, 32090, 32091, 32092, 32093, 32094, 32095, 32096, 32097, 32098,
       32099, 32100, 32101, 32102, 32103, 32104, 32105, 32106, 32107, 32108, 32109, 32111, 32112, 32113,
       32114, 32115, 32116, 32117, 32118, 32120, 32121, 32122, 32123, 32124, 32125, 32126, 32127, 32128,
       32129, 32130, 32131, 32132, 32133, 32134, 32135, 32136, 32137, 32138, 32139, 32140, 32141, 32142,
       32143, 32144, 32145, 32146, 32147, 32148, 32149, 32150, 32151, 32152, 20581, 33328, 21073, 39279,
       28176, 28293, 28071, 24314, 20725, 23004, 23558, 27974, 27743, 30086, 33931, 26728, 22870, 35762,
       21280, 37233, 38477, 34121, 26898, 30977, 28966, 33014, 20132, 37066, 27975, 39556, 23047, 22204,
       25605, 38128, 30699, 20389, 33050, 29409, 35282, 39290, 32564, 32478, 21119, 25945, 37237, 36735,
       36739, 21483, 31382, 25581, 25509, 30342, 31224, 34903, 38454, 25130, 21163, 33410, 26708, 26480,
       25463, 30571, 31469, 27905, 32467, 35299, 22992, 25106, 34249, 33445, 30028, 20511, 20171, 30117,
       35819, 23626, 24062, 31563, 26020, 37329, 20170, 27941, 35167, 32039, 38182, 20165, 35880, 36827,
       38771, 26187, 31105, 36817, 28908, 28024, 32153, 32154, 32155, 32156, 32157, 32158, 32159, 32160,
       32161, 32162, 32163, 32164, 32165, 32167, 32168, 32169, 32170, 32171, 32172, 32173, 32175, 32176,
       32177, 32178, 32179, 32180, 32181, 32182, 32183, 32184, 32185, 32186, 32187, 32188, 32189, 32190,
       32191, 32192, 32193, 32194, 32195, 32196, 32197, 32198, 32199, 32200, 32201, 32202, 32203, 32204,
       32205, 32206, 32207, 32208, 32209, 32210, 32211, 32212, 32213, 32214, 32215, 32216, 32217, 32218,
       32219, 32220, 32221, 32222, 32223, 32224, 32225, 32226, 32227, 32228, 32229, 32230, 32231, 32232,
       32233, 32234, 32235, 32236, 32237, 32238, 32239, 32240, 32241, 32242, 32243, 32244, 32245, 32246,
       32247, 32248, 32249, 32250, 23613, 21170, 33606, 20834, 33550, 30555, 26230, 40120, 20140, 24778,
       31934, 31923, 32463, 20117, 35686, 26223, 39048, 38745, 22659, 25964, 38236, 24452, 30153, 38742,
       31455, 31454, 20928, 28847, 31384, 25578, 31350, 32416, 29590, 38893, 20037, 28792, 20061, 37202,
       21417, 25937, 26087, 33276, 33285, 21646, 23601, 30106, 38816, 25304, 29401, 30141, 23621, 39545,
       33738, 23616, 21632, 30697, 20030, 27822, 32858, 25298, 25454, 24040, 20855, 36317, 36382, 38191,
       20465, 21477, 24807, 28844, 21095, 25424, 40515, 23071, 20518, 30519, 21367, 32482, 25733, 25899,
       25225, 25496, 20500, 29237, 35273, 20915, 35776, 32477, 22343, 33740, 38055, 20891, 21531, 23803,
       32251, 32252, 32253, 32254, 32255, 32256, 32257, 32258, 32259, 32260, 32261, 32262, 32263, 32264,
       32265, 32266, 32267, 32268, 32269, 32270, 32271, 32272, 32273, 32274, 32275, 32276, 32277, 32278,
       32279, 32280, 32281, 32282, 32283, 32284, 32285, 32286, 32287, 32288, 32289, 32290, 32291, 32292,
       32293, 32294, 32295, 32296, 32297, 32298, 32299, 32300, 32301, 32302, 32303, 32304, 32305, 32306,
       32307, 32308, 32309, 32310, 32311, 32312, 32313, 32314, 32316, 32317, 32318, 32319, 32320, 32322,
       32323, 32324, 32325, 32326, 32328, 32329, 32330, 32331, 32332, 32333, 32334, 32335, 32336, 32337,
       32338, 32339, 32340, 32341, 32342, 32343, 32344, 32345, 32346, 32347, 32348, 32349, 20426, 31459,
       27994, 37089, 39567, 21888, 21654, 21345, 21679, 24320, 25577, 26999, 20975, 24936, 21002, 22570,
       21208, 22350, 30733, 30475, 24247, 24951, 31968, 25179, 25239, 20130, 28821, 32771, 25335, 28900,
       38752, 22391, 33499, 26607, 26869, 30933, 39063, 31185, 22771, 21683, 21487, 28212, 20811, 21051,
       23458, 35838, 32943, 21827, 22438, 24691, 22353, 21549, 31354, 24656, 23380, 25511, 25248, 21475,
       25187, 23495, 26543, 21741, 31391, 33510, 37239, 24211, 35044, 22840, 22446, 25358, 36328, 33007,
       22359, 31607, 20393, 24555, 23485, 27454, 21281, 31568, 29378, 26694, 30719, 30518, 26103, 20917,
       20111, 30420, 23743, 31397, 33909, 22862, 39745, 20608, 32350, 32351, 32352, 32353, 32354, 32355,
       32356, 32357, 32358, 32359, 32360, 32361, 32362, 32363, 32364, 32365, 32366, 32367, 32368, 32369,
       32370, 32371, 32372, 32373, 32374, 32375, 32376, 32377, 32378, 32379, 32380, 32381, 32382, 32383,
       32384, 32385, 32387, 32388, 32389, 32390, 32391, 32392, 32393, 32394, 32395, 32396, 32397, 32398,
       32399, 32400, 32401, 32402, 32403, 32404, 32405, 32406, 32407, 32408, 32409, 32410, 32412, 32413,
       32414, 32430, 32436, 32443, 32444, 32470, 32484, 32492, 32505, 32522, 32528, 32542, 32567, 32569,
       32571, 32572, 32573, 32574, 32575, 32576, 32577, 32579, 32582, 32583, 32584, 32585, 32586, 32587,
       32588, 32589, 32590, 32591, 32594, 32595, 39304, 24871, 28291, 22372, 26118, 25414, 22256, 25324,
       25193, 24275, 38420, 22403, 25289, 21895, 34593, 33098, 36771, 21862, 33713, 26469, 36182, 34013,
       23146, 26639, 25318, 31726, 38417, 20848, 28572, 35888, 25597, 35272, 25042, 32518, 28866, 28389,
       29701, 27028, 29436, 24266, 37070, 26391, 28010, 25438, 21171, 29282, 32769, 20332, 23013, 37226,
       28889, 28061, 21202, 20048, 38647, 38253, 34174, 30922, 32047, 20769, 22418, 25794, 32907, 31867,
       27882, 26865, 26974, 20919, 21400, 26792, 29313, 40654, 31729, 29432, 31163, 28435, 29702, 26446,
       37324, 40100, 31036, 33673, 33620, 21519, 26647, 20029, 21385, 21169, 30782, 21382, 21033, 20616,
       20363, 20432, 32598, 32601, 32603, 32604, 32605, 32606, 32608, 32611, 32612, 32613, 32614, 32615,
       32619, 32620, 32621, 32623, 32624, 32627, 32629, 32630, 32631, 32632, 32634, 32635, 32636, 32637,
       32639, 32640, 32642, 32643, 32644, 32645, 32646, 32647, 32648, 32649, 32651, 32653, 32655, 32656,
       32657, 32658, 32659, 32661, 32662, 32663, 32664, 32665, 32667, 32668, 32672, 32674, 32675, 32677,
       32678, 32680, 32681, 32682, 32683, 32684, 32685, 32686, 32689, 32691, 32692, 32693, 32694, 32695,
       32698, 32699, 32702, 32704, 32706, 32707, 32708, 32710, 32711, 32712, 32713, 32715, 32717, 32719,
       32720, 32721, 32722, 32723, 32726, 32727, 32729, 32730, 32731, 32732, 32733, 32734, 32738, 32739,
       30178, 31435, 31890, 27813, 38582, 21147, 29827, 21737, 20457, 32852, 33714, 36830, 38256, 24265,
       24604, 28063, 24088, 25947, 33080, 38142, 24651, 28860, 32451, 31918, 20937, 26753, 31921, 33391,
       20004, 36742, 37327, 26238, 20142, 35845, 25769, 32842, 20698, 30103, 29134, 23525, 36797, 28518,
       20102, 25730, 38243, 24278, 26009, 21015, 35010, 28872, 21155, 29454, 29747, 26519, 30967, 38678,
       20020, 37051, 40158, 28107, 20955, 36161, 21533, 25294, 29618, 33777, 38646, 40836, 38083, 20278,
       32666, 20940, 28789, 38517, 23725, 39046, 21478, 20196, 28316, 29705, 27060, 30827, 39311, 30041,
       21016, 30244, 27969, 26611, 20845, 40857, 32843, 21657, 31548, 31423, 32740, 32743, 32744, 32746,
       32747, 32748, 32749, 32751, 32754, 32756, 32757, 32758, 32759, 32760, 32761, 32762, 32765, 32766,
       32767, 32770, 32775, 32776, 32777, 32778, 32782, 32783, 32785, 32787, 32794, 32795, 32797, 32798,
       32799, 32801, 32803, 32804, 32811, 32812, 32813, 32814, 32815, 32816, 32818, 32820, 32825, 32826,
       32828, 32830, 32832, 32833, 32836, 32837, 32839, 32840, 32841, 32846, 32847, 32848, 32849, 32851,
       32853, 32854, 32855, 32857, 32859, 32860, 32861, 32862, 32863, 32864, 32865, 32866, 32867, 32868,
       32869, 32870, 32871, 32872, 32875, 32876, 32877, 32878, 32879, 32880, 32882, 32883, 32884, 32885,
       32886, 32887, 32888, 32889, 32890, 32891, 32892, 32893, 38534, 22404, 25314, 38471, 27004, 23044,
       25602, 31699, 28431, 38475, 33446, 21346, 39045, 24208, 28809, 25523, 21348, 34383, 40065, 40595,
       30860, 38706, 36335, 36162, 40575, 28510, 31108, 24405, 38470, 25134, 39540, 21525, 38109, 20387,
       26053, 23653, 23649, 32533, 34385, 27695, 24459, 29575, 28388, 32511, 23782, 25371, 23402, 28390,
       21365, 20081, 25504, 30053, 25249, 36718, 20262, 20177, 27814, 32438, 35770, 33821, 34746, 32599,
       36923, 38179, 31657, 39585, 35064, 33853, 27931, 39558, 32476, 22920, 40635, 29595, 30721, 34434,
       39532, 39554, 22043, 21527, 22475, 20080, 40614, 21334, 36808, 33033, 30610, 39314, 34542, 28385,
       34067, 26364, 24930, 28459, 32894, 32897, 32898, 32901, 32904, 32906, 32909, 32910, 32911, 32912,
       32913, 32914, 32916, 32917, 32919, 32921, 32926, 32931, 32934, 32935, 32936, 32940, 32944, 32947,
       32949, 32950, 32952, 32953, 32955, 32965, 32967, 32968, 32969, 32970, 32971, 32975, 32976, 32977,
       32978, 32979, 32980, 32981, 32984, 32991, 32992, 32994, 32995, 32998, 33006, 33013, 33015, 33017,
       33019, 33022, 33023, 33024, 33025, 33027, 33028, 33029, 33031, 33032, 33035, 33036, 33045, 33047,
       33049, 33051, 33052, 33053, 33055, 33056, 33057, 33058, 33059, 33060, 33061, 33062, 33063, 33064,
       33065, 33066, 33067, 33069, 33070, 33072, 33075, 33076, 33077, 33079, 33081, 33082, 33083, 33084,
       33085, 33087, 35881, 33426, 33579, 30450, 27667, 24537, 33725, 29483, 33541, 38170, 27611, 30683,
       38086, 21359, 33538, 20882, 24125, 35980, 36152, 20040, 29611, 26522, 26757, 37238, 38665, 29028,
       27809, 30473, 23186, 38209, 27599, 32654, 26151, 23504, 22969, 23194, 38376, 38391, 20204, 33804,
       33945, 27308, 30431, 38192, 29467, 26790, 23391, 30511, 37274, 38753, 31964, 36855, 35868, 24357,
       31859, 31192, 35269, 27852, 34588, 23494, 24130, 26825, 30496, 32501, 20885, 20813, 21193, 23081,
       32517, 38754, 33495, 25551, 30596, 34256, 31186, 28218, 24217, 22937, 34065, 28781, 27665, 25279,
       30399, 25935, 24751, 38397, 26126, 34719, 40483, 38125, 21517, 21629, 35884, 25720, 33088, 33089,
       33090, 33091, 33092, 33093, 33095, 33097, 33101, 33102, 33103, 33106, 33110, 33111, 33112, 33115,
       33116, 33117, 33118, 33119, 33121, 33122, 33123, 33124, 33126, 33128, 33130, 33131, 33132, 33135,
       33138, 33139, 33141, 33142, 33143, 33144, 33153, 33155, 33156, 33157, 33158, 33159, 33161, 33163,
       33164, 33165, 33166, 33168, 33170, 33171, 33172, 33173, 33174, 33175, 33177, 33178, 33182, 33183,
       33184, 33185, 33186, 33188, 33189, 33191, 33193, 33195, 33196, 33197, 33198, 33199, 33200, 33201,
       33202, 33204, 33205, 33206, 33207, 33208, 33209, 33212, 33213, 33214, 33215, 33220, 33221, 33223,
       33224, 33225, 33227, 33229, 33230, 33231, 33232, 33233, 33234, 33235, 25721, 34321, 27169, 33180,
       30952, 25705, 39764, 25273, 26411, 33707, 22696, 40664, 27819, 28448, 23518, 38476, 35851, 29279,
       26576, 25287, 29281, 20137, 22982, 27597, 22675, 26286, 24149, 21215, 24917, 26408, 30446, 30566,
       29287, 31302, 25343, 21738, 21584, 38048, 37027, 23068, 32435, 27670, 20035, 22902, 32784, 22856,
       21335, 30007, 38590, 22218, 25376, 33041, 24700, 38393, 28118, 21602, 39297, 20869, 23273, 33021,
       22958, 38675, 20522, 27877, 23612, 25311, 20320, 21311, 33147, 36870, 28346, 34091, 25288, 24180,
       30910, 25781, 25467, 24565, 23064, 37247, 40479, 23615, 25423, 32834, 23421, 21870, 38218, 38221,
       28037, 24744, 26592, 29406, 20957, 23425, 33236, 33237, 33238, 33239, 33240, 33241, 33242, 33243,
       33244, 33245, 33246, 33247, 33248, 33249, 33250, 33252, 33253, 33254, 33256, 33257, 33259, 33262,
       33263, 33264, 33265, 33266, 33269, 33270, 33271, 33272, 33273, 33274, 33277, 33279, 33283, 33287,
       33288, 33289, 33290, 33291, 33294, 33295, 33297, 33299, 33301, 33302, 33303, 33304, 33305, 33306,
       33309, 33312, 33316, 33317, 33318, 33319, 33321, 33326, 33330, 33338, 33340, 33341, 33343, 33344,
       33345, 33346, 33347, 33349, 33350, 33352, 33354, 33356, 33357, 33358, 33360, 33361, 33362, 33363,
       33364, 33365, 33366, 33367, 33369, 33371, 33372, 33373, 33374, 33376, 33377, 33378, 33379, 33380,
       33381, 33382, 33383, 33385, 25319, 27870, 29275, 25197, 38062, 32445, 33043, 27987, 20892, 24324,
       22900, 21162, 24594, 22899, 26262, 34384, 30111, 25386, 25062, 31983, 35834, 21734, 27431, 40485,
       27572, 34261, 21589, 20598, 27812, 21866, 36276, 29228, 24085, 24597, 29750, 25293, 25490, 29260,
       24472, 28227, 27966, 25856, 28504, 30424, 30928, 30460, 30036, 21028, 21467, 20051, 24222, 26049,
       32810, 32982, 25243, 21638, 21032, 28846, 34957, 36305, 27873, 21624, 32986, 22521, 35060, 36180,
       38506, 37197, 20329, 27803, 21943, 30406, 30768, 25256, 28921, 28558, 24429, 34028, 26842, 30844,
       31735, 33192, 26379, 40527, 25447, 30896, 22383, 30738, 38713, 25209, 25259, 21128, 29749, 27607,
       33386, 33387, 33388, 33389, 33393, 33397, 33398, 33399, 33400, 33403, 33404, 33408, 33409, 33411,
       33413, 33414, 33415, 33417, 33420, 33424, 33427, 33428, 33429, 33430, 33434, 33435, 33438, 33440,
       33442, 33443, 33447, 33458, 33461, 33462, 33466, 33467, 33468, 33471, 33472, 33474, 33475, 33477,
       33478, 33481, 33488, 33494, 33497, 33498, 33501, 33506, 33511, 33512, 33513, 33514, 33516, 33517,
       33518, 33520, 33522, 33523, 33525, 33526, 33528, 33530, 33532, 33533, 33534, 33535, 33536, 33546,
       33547, 33549, 33552, 33554, 33555, 33558, 33560, 33561, 33565, 33566, 33567, 33568, 33569, 33570,
       33571, 33572, 33573, 33574, 33577, 33578, 33582, 33584, 33586, 33591, 33595, 33597, 21860, 33086,
       30130, 30382, 21305, 30174, 20731, 23617, 35692, 31687, 20559, 29255, 39575, 39128, 28418, 29922,
       31080, 25735, 30629, 25340, 39057, 36139, 21697, 32856, 20050, 22378, 33529, 33805, 24179, 20973,
       29942, 35780, 23631, 22369, 27900, 39047, 23110, 30772, 39748, 36843, 31893, 21078, 25169, 38138,
       20166, 33670, 33889, 33769, 33970, 22484, 26420, 22275, 26222, 28006, 35889, 26333, 28689, 26399,
       27450, 26646, 25114, 22971, 19971, 20932, 28422, 26578, 27791, 20854, 26827, 22855, 27495, 30054,
       23822, 33040, 40784, 26071, 31048, 31041, 39569, 36215, 23682, 20062, 20225, 21551, 22865, 30732,
       22120, 27668, 36804, 24323, 27773, 27875, 35755, 25488, 33598, 33599, 33601, 33602, 33604, 33605,
       33608, 33610, 33611, 33612, 33613, 33614, 33619, 33621, 33622, 33623, 33624, 33625, 33629, 33634,
       33648, 33649, 33650, 33651, 33652, 33653, 33654, 33657, 33658, 33662, 33663, 33664, 33665, 33666,
       33667, 33668, 33671, 33672, 33674, 33675, 33676, 33677, 33679, 33680, 33681, 33684, 33685, 33686,
       33687, 33689, 33690, 33693, 33695, 33697, 33698, 33699, 33700, 33701, 33702, 33703, 33708, 33709,
       33710, 33711, 33717, 33723, 33726, 33727, 33730, 33731, 33732, 33734, 33736, 33737, 33739, 33741,
       33742, 33744, 33745, 33746, 33747, 33749, 33751, 33753, 33754, 33755, 33758, 33762, 33763, 33764,
       33766, 33767, 33768, 33771, 33772, 33773, 24688, 27965, 29301, 25190, 38030, 38085, 21315, 36801,
       31614, 20191, 35878, 20094, 40660, 38065, 38067, 21069, 28508, 36963, 27973, 35892, 22545, 23884,
       27424, 27465, 26538, 21595, 33108, 32652, 22681, 34103, 24378, 25250, 27207, 38201, 25970, 24708,
       26725, 30631, 20052, 20392, 24039, 38808, 25772, 32728, 23789, 20431, 31373, 20999, 33540, 19988,
       24623, 31363, 38054, 20405, 20146, 31206, 29748, 21220, 33465, 25810, 31165, 23517, 27777, 38738,
       36731, 27682, 20542, 21375, 28165, 25806, 26228, 27696, 24773, 39031, 35831, 24198, 29756, 31351,
       31179, 19992, 37041, 29699, 27714, 22234, 37195, 27845, 36235, 21306, 34502, 26354, 36527, 23624,
       39537, 28192, 33774, 33775, 33779, 33780, 33781, 33782, 33783, 33786, 33787, 33788, 33790, 33791,
       33792, 33794, 33797, 33799, 33800, 33801, 33802, 33808, 33810, 33811, 33812, 33813, 33814, 33815,
       33817, 33818, 33819, 33822, 33823, 33824, 33825, 33826, 33827, 33833, 33834, 33835, 33836, 33837,
       33838, 33839, 33840, 33842, 33843, 33844, 33845, 33846, 33847, 33849, 33850, 33851, 33854, 33855,
       33856, 33857, 33858, 33859, 33860, 33861, 33863, 33864, 33865, 33866, 33867, 33868, 33869, 33870,
       33871, 33872, 33874, 33875, 33876, 33877, 33878, 33880, 33885, 33886, 33887, 33888, 33890, 33892,
       33893, 33894, 33895, 33896, 33898, 33902, 33903, 33904, 33906, 33908, 33911, 33913, 33915, 33916,
       21462, 23094, 40843, 36259, 21435, 22280, 39079, 26435, 37275, 27849, 20840, 30154, 25331, 29356,
       21048, 21149, 32570, 28820, 30264, 21364, 40522, 27063, 30830, 38592, 35033, 32676, 28982, 29123,
       20873, 26579, 29924, 22756, 25880, 22199, 35753, 39286, 25200, 32469, 24825, 28909, 22764, 20161,
       20154, 24525, 38887, 20219, 35748, 20995, 22922, 32427, 25172, 20173, 26085, 25102, 33592, 33993,
       33635, 34701, 29076, 28342, 23481, 32466, 20887, 25545, 26580, 32905, 33593, 34837, 20754, 23418,
       22914, 36785, 20083, 27741, 20837, 35109, 36719, 38446, 34122, 29790, 38160, 38384, 28070, 33509,
       24369, 25746, 27922, 33832, 33134, 40131, 22622, 36187, 19977, 21441, 33917, 33918, 33919, 33920,
       33921, 33923, 33924, 33925, 33926, 33930, 33933, 33935, 33936, 33937, 33938, 33939, 33940, 33941,
       33942, 33944, 33946, 33947, 33949, 33950, 33951, 33952, 33954, 33955, 33956, 33957, 33958, 33959,
       33960, 33961, 33962, 33963, 33964, 33965, 33966, 33968, 33969, 33971, 33973, 33974, 33975, 33979,
       33980, 33982, 33984, 33986, 33987, 33989, 33990, 33991, 33992, 33995, 33996, 33998, 33999, 34002,
       34004, 34005, 34007, 34008, 34009, 34010, 34011, 34012, 34014, 34017, 34018, 34020, 34023, 34024,
       34025, 34026, 34027, 34029, 34030, 34031, 34033, 34034, 34035, 34036, 34037, 34038, 34039, 34040,
       34041, 34042, 34043, 34045, 34046, 34048, 34049, 34050, 20254, 25955, 26705, 21971, 20007, 25620,
       39578, 25195, 23234, 29791, 33394, 28073, 26862, 20711, 33678, 30722, 26432, 21049, 27801, 32433,
       20667, 21861, 29022, 31579, 26194, 29642, 33515, 26441, 23665, 21024, 29053, 34923, 38378, 38485,
       25797, 36193, 33203, 21892, 27733, 25159, 32558, 22674, 20260, 21830, 36175, 26188, 19978, 23578,
       35059, 26786, 25422, 31245, 28903, 33421, 21242, 38902, 23569, 21736, 37045, 32461, 22882, 36170,
       34503, 33292, 33293, 36198, 25668, 23556, 24913, 28041, 31038, 35774, 30775, 30003, 21627, 20280,
       36523, 28145, 23072, 32453, 31070, 27784, 23457, 23158, 29978, 32958, 24910, 28183, 22768, 29983,
       29989, 29298, 21319, 32499, 34051, 34052, 34053, 34054, 34055, 34056, 34057, 34058, 34059, 34061,
       34062, 34063, 34064, 34066, 34068, 34069, 34070, 34072, 34073, 34075, 34076, 34077, 34078, 34080,
       34082, 34083, 34084, 34085, 34086, 34087, 34088, 34089, 34090, 34093, 34094, 34095, 34096, 34097,
       34098, 34099, 34100, 34101, 34102, 34110, 34111, 34112, 34113, 34114, 34116, 34117, 34118, 34119,
       34123, 34124, 34125, 34126, 34127, 34128, 34129, 34130, 34131, 34132, 34133, 34135, 34136, 34138,
       34139, 34140, 34141, 34143, 34144, 34145, 34146, 34147, 34149, 34150, 34151, 34153, 34154, 34155,
       34156, 34157, 34158, 34159, 34160, 34161, 34163, 34165, 34166, 34167, 34168, 34172, 34173, 34175,
       34176, 34177, 30465, 30427, 21097, 32988, 22307, 24072, 22833, 29422, 26045, 28287, 35799, 23608,
       34417, 21313, 30707, 25342, 26102, 20160, 39135, 34432, 23454, 35782, 21490, 30690, 20351, 23630,
       39542, 22987, 24335, 31034, 22763, 19990, 26623, 20107, 25325, 35475, 36893, 21183, 26159, 21980,
       22124, 36866, 20181, 20365, 37322, 39280, 27663, 24066, 24643, 23460, 35270, 35797, 25910, 25163,
       39318, 23432, 23551, 25480, 21806, 21463, 30246, 20861, 34092, 26530, 26803, 27530, 25234, 36755,
       21460, 33298, 28113, 30095, 20070, 36174, 23408, 29087, 34223, 26257, 26329, 32626, 34560, 40653,
       40736, 23646, 26415, 36848, 26641, 26463, 25101, 31446, 22661, 24246, 25968, 28465, 34178, 34179,
       34182, 34184, 34185, 34186, 34187, 34188, 34189, 34190, 34192, 34193, 34194, 34195, 34196, 34197,
       34198, 34199, 34200, 34201, 34202, 34205, 34206, 34207, 34208, 34209, 34210, 34211, 34213, 34214,
       34215, 34217, 34219, 34220, 34221, 34225, 34226, 34227, 34228, 34229, 34230, 34232, 34234, 34235,
       34236, 34237, 34238, 34239, 34240, 34242, 34243, 34244, 34245, 34246, 34247, 34248, 34250, 34251,
       34252, 34253, 34254, 34257, 34258, 34260, 34262, 34263, 34264, 34265, 34266, 34267, 34269, 34270,
       34271, 34272, 34273, 34274, 34275, 34277, 34278, 34279, 34280, 34282, 34283, 34284, 34285, 34286,
       34287, 34288, 34289, 34290, 34291, 34292, 34293, 34294, 34295, 34296, 24661, 21047, 32781, 25684,
       34928, 29993, 24069, 26643, 25332, 38684, 21452, 29245, 35841, 27700, 30561, 31246, 21550, 30636,
       39034, 33308, 35828, 30805, 26388, 28865, 26031, 25749, 22070, 24605, 31169, 21496, 19997, 27515,
       32902, 23546, 21987, 22235, 20282, 20284, 39282, 24051, 26494, 32824, 24578, 39042, 36865, 23435,
       35772, 35829, 25628, 33368, 25822, 22013, 33487, 37221, 20439, 32032, 36895, 31903, 20723, 22609,
       28335, 23487, 35785, 32899, 37240, 33948, 31639, 34429, 38539, 38543, 32485, 39635, 30862, 23681,
       31319, 36930, 38567, 31071, 23385, 25439, 31499, 34001, 26797, 21766, 32553, 29712, 32034, 38145,
       25152, 22604, 20182, 23427, 22905, 22612, 34297, 34298, 34300, 34301, 34302, 34304, 34305, 34306,
       34307, 34308, 34310, 34311, 34312, 34313, 34314, 34315, 34316, 34317, 34318, 34319, 34320, 34322,
       34323, 34324, 34325, 34327, 34328, 34329, 34330, 34331, 34332, 34333, 34334, 34335, 34336, 34337,
       34338, 34339, 34340, 34341, 34342, 34344, 34346, 34347, 34348, 34349, 34350, 34351, 34352, 34353,
       34354, 34355, 34356, 34357, 34358, 34359, 34361, 34362, 34363, 34365, 34366, 34367, 34368, 34369,
       34370, 34371, 34372, 34373, 34374, 34375, 34376, 34377, 34378, 34379, 34380, 34386, 34387, 34389,
       34390, 34391, 34392, 34393, 34395, 34396, 34397, 34399, 34400, 34401, 34403, 34404, 34405, 34406,
       34407, 34408, 34409, 34410, 29549, 25374, 36427, 36367, 32974, 33492, 25260, 21488, 27888, 37214,
       22826, 24577, 27760, 22349, 25674, 36138, 30251, 28393, 22363, 27264, 30192, 28525, 35885, 35848,
       22374, 27631, 34962, 30899, 25506, 21497, 28845, 27748, 22616, 25642, 22530, 26848, 33179, 21776,
       31958, 20504, 36538, 28108, 36255, 28907, 25487, 28059, 28372, 32486, 33796, 26691, 36867, 28120,
       38518, 35752, 22871, 29305, 34276, 33150, 30140, 35466, 26799, 21076, 36386, 38161, 25552, 39064,
       36420, 21884, 20307, 26367, 22159, 24789, 28053, 21059, 23625, 22825, 28155, 22635, 30000, 29980,
       24684, 33300, 33094, 25361, 26465, 36834, 30522, 36339, 36148, 38081, 24086, 21381, 21548, 28867,
       34413, 34415, 34416, 34418, 34419, 34420, 34421, 34422, 34423, 34424, 34435, 34436, 34437, 34438,
       34439, 34440, 34441, 34446, 34447, 34448, 34449, 34450, 34452, 34454, 34455, 34456, 34457, 34458,
       34459, 34462, 34463, 34464, 34465, 34466, 34469, 34470, 34475, 34477, 34478, 34482, 34483, 34487,
       34488, 34489, 34491, 34492, 34493, 34494, 34495, 34497, 34498, 34499, 34501, 34504, 34508, 34509,
       34514, 34515, 34517, 34518, 34519, 34522, 34524, 34525, 34528, 34529, 34530, 34531, 34533, 34534,
       34535, 34536, 34538, 34539, 34540, 34543, 34549, 34550, 34551, 34554, 34555, 34556, 34557, 34559,
       34561, 34564, 34565, 34566, 34571, 34572, 34574, 34575, 34576, 34577, 34580, 34582, 27712, 24311,
       20572, 20141, 24237, 25402, 33351, 36890, 26704, 37230, 30643, 21516, 38108, 24420, 31461, 26742,
       25413, 31570, 32479, 30171, 20599, 25237, 22836, 36879, 20984, 31171, 31361, 22270, 24466, 36884,
       28034, 23648, 22303, 21520, 20820, 28237, 22242, 25512, 39059, 33151, 34581, 35114, 36864, 21534,
       23663, 33216, 25302, 25176, 33073, 40501, 38464, 39534, 39548, 26925, 22949, 25299, 21822, 25366,
       21703, 34521, 27964, 23043, 29926, 34972, 27498, 22806, 35916, 24367, 28286, 29609, 39037, 20024,
       28919, 23436, 30871, 25405, 26202, 30358, 24779, 23451, 23113, 19975, 33109, 27754, 29579, 20129,
       26505, 32593, 24448, 26106, 26395, 24536, 22916, 23041, 34585, 34587, 34589, 34591, 34592, 34596,
       34598, 34599, 34600, 34602, 34603, 34604, 34605, 34607, 34608, 34610, 34611, 34613, 34614, 34616,
       34617, 34618, 34620, 34621, 34624, 34625, 34626, 34627, 34628, 34629, 34630, 34634, 34635, 34637,
       34639, 34640, 34641, 34642, 34644, 34645, 34646, 34648, 34650, 34651, 34652, 34653, 34654, 34655,
       34657, 34658, 34662, 34663, 34664, 34665, 34666, 34667, 34668, 34669, 34671, 34673, 34674, 34675,
       34677, 34679, 34680, 34681, 34682, 34687, 34688, 34689, 34692, 34694, 34695, 34697, 34698, 34700,
       34702, 34703, 34704, 34705, 34706, 34708, 34709, 34710, 34712, 34713, 34714, 34715, 34716, 34717,
       34718, 34720, 34721, 34722, 34723, 34724, 24013, 24494, 21361, 38886, 36829, 26693, 22260, 21807,
       24799, 20026, 28493, 32500, 33479, 33806, 22996, 20255, 20266, 23614, 32428, 26410, 34074, 21619,
       30031, 32963, 21890, 39759, 20301, 28205, 35859, 23561, 24944, 21355, 30239, 28201, 34442, 25991,
       38395, 32441, 21563, 31283, 32010, 38382, 21985, 32705, 29934, 25373, 34583, 28065, 31389, 25105,
       26017, 21351, 25569, 27779, 24043, 21596, 38056, 20044, 27745, 35820, 23627, 26080, 33436, 26791,
       21566, 21556, 27595, 27494, 20116, 25410, 21320, 33310, 20237, 20398, 22366, 25098, 38654, 26212,
       29289, 21247, 21153, 24735, 35823, 26132, 29081, 26512, 35199, 30802, 30717, 26224, 22075, 21560,
       38177, 29306, 34725, 34726, 34727, 34729, 34730, 34734, 34736, 34737, 34738, 34740, 34742, 34743,
       34744, 34745, 34747, 34748, 34750, 34751, 34753, 34754, 34755, 34756, 34757, 34759, 34760, 34761,
       34764, 34765, 34766, 34767, 34768, 34772, 34773, 34774, 34775, 34776, 34777, 34778, 34780, 34781,
       34782, 34783, 34785, 34786, 34787, 34788, 34790, 34791, 34792, 34793, 34795, 34796, 34797, 34799,
       34800, 34801, 34802, 34803, 34804, 34805, 34806, 34807, 34808, 34810, 34811, 34812, 34813, 34815,
       34816, 34817, 34818, 34820, 34821, 34822, 34823, 34824, 34825, 34827, 34828, 34829, 34830, 34831,
       34832, 34833, 34834, 34836, 34839, 34840, 34841, 34842, 34844, 34845, 34846, 34847, 34848, 34851,
       31232, 24687, 24076, 24713, 33181, 22805, 24796, 29060, 28911, 28330, 27728, 29312, 27268, 34989,
       24109, 20064, 23219, 21916, 38115, 27927, 31995, 38553, 25103, 32454, 30606, 34430, 21283, 38686,
       36758, 26247, 23777, 20384, 29421, 19979, 21414, 22799, 21523, 25472, 38184, 20808, 20185, 40092,
       32420, 21688, 36132, 34900, 33335, 38386, 28046, 24358, 23244, 26174, 38505, 29616, 29486, 21439,
       33146, 39301, 32673, 23466, 38519, 38480, 32447, 30456, 21410, 38262, 39321, 31665, 35140, 28248,
       20065, 32724, 31077, 35814, 24819, 21709, 20139, 39033, 24055, 27233, 20687, 21521, 35937, 33831,
       30813, 38660, 21066, 21742, 22179, 38144, 28040, 23477, 28102, 26195, 34852, 34853, 34854, 34855,
       34856, 34857, 34858, 34859, 34860, 34861, 34862, 34863, 34864, 34865, 34867, 34868, 34869, 34870,
       34871, 34872, 34874, 34875, 34877, 34878, 34879, 34881, 34882, 34883, 34886, 34887, 34888, 34889,
       34890, 34891, 34894, 34895, 34896, 34897, 34898, 34899, 34901, 34902, 34904, 34906, 34907, 34908,
       34909, 34910, 34911, 34912, 34918, 34919, 34922, 34925, 34927, 34929, 34931, 34932, 34933, 34934,
       34936, 34937, 34938, 34939, 34940, 34944, 34947, 34950, 34951, 34953, 34954, 34956, 34958, 34959,
       34960, 34961, 34963, 34964, 34965, 34967, 34968, 34969, 34970, 34971, 34973, 34974, 34975, 34976,
       34977, 34979, 34981, 34982, 34983, 34984, 34985, 34986, 23567, 23389, 26657, 32918, 21880, 31505,
       25928, 26964, 20123, 27463, 34638, 38795, 21327, 25375, 25658, 37034, 26012, 32961, 35856, 20889,
       26800, 21368, 34809, 25032, 27844, 27899, 35874, 23633, 34218, 33455, 38156, 27427, 36763, 26032,
       24571, 24515, 20449, 34885, 26143, 33125, 29481, 24826, 20852, 21009, 22411, 24418, 37026, 34892,
       37266, 24184, 26447, 24615, 22995, 20804, 20982, 33016, 21256, 27769, 38596, 29066, 20241, 20462,
       32670, 26429, 21957, 38152, 31168, 34966, 32483, 22687, 25100, 38656, 34394, 22040, 39035, 24464,
       35768, 33988, 37207, 21465, 26093, 24207, 30044, 24676, 32110, 23167, 32490, 32493, 36713, 21927,
       23459, 24748, 26059, 29572, 34988, 34990, 34991, 34992, 34994, 34995, 34996, 34997, 34998, 35000,
       35001, 35002, 35003, 35005, 35006, 35007, 35008, 35011, 35012, 35015, 35016, 35018, 35019, 35020,
       35021, 35023, 35024, 35025, 35027, 35030, 35031, 35034, 35035, 35036, 35037, 35038, 35040, 35041,
       35046, 35047, 35049, 35050, 35051, 35052, 35053, 35054, 35055, 35058, 35061, 35062, 35063, 35066,
       35067, 35069, 35071, 35072, 35073, 35075, 35076, 35077, 35078, 35079, 35080, 35081, 35083, 35084,
       35085, 35086, 35087, 35089, 35092, 35093, 35094, 35095, 35096, 35100, 35101, 35102, 35103, 35104,
       35106, 35107, 35108, 35110, 35111, 35112, 35113, 35116, 35117, 35118, 35119, 35121, 35122, 35123,
       35125, 35127, 36873, 30307, 30505, 32474, 38772, 34203, 23398, 31348, 38634, 34880, 21195, 29071,
       24490, 26092, 35810, 23547, 39535, 24033, 27529, 27739, 35757, 35759, 36874, 36805, 21387, 25276,
       40486, 40493, 21568, 20011, 33469, 29273, 34460, 23830, 34905, 28079, 38597, 21713, 20122, 35766,
       28937, 21693, 38409, 28895, 28153, 30416, 20005, 30740, 34578, 23721, 24310, 35328, 39068, 38414,
       28814, 27839, 22852, 25513, 30524, 34893, 28436, 33395, 22576, 29141, 21388, 30746, 38593, 21761,
       24422, 28976, 23476, 35866, 39564, 27523, 22830, 40495, 31207, 26472, 25196, 20335, 30113, 32650,
       27915, 38451, 27687, 20208, 30162, 20859, 26679, 28478, 36992, 33136, 22934, 29814, 35128, 35129,
       35130, 35131, 35132, 35133, 35134, 35135, 35136, 35138, 35139, 35141, 35142, 35143, 35144, 35145,
       35146, 35147, 35148, 35149, 35150, 35151, 35152, 35153, 35154, 35155, 35156, 35157, 35158, 35159,
       35160, 35161, 35162, 35163, 35164, 35165, 35168, 35169, 35170, 35171, 35172, 35173, 35175, 35176,
       35177, 35178, 35179, 35180, 35181, 35182, 35183, 35184, 35185, 35186, 35187, 35188, 35189, 35190,
       35191, 35192, 35193, 35194, 35196, 35197, 35198, 35200, 35202, 35204, 35205, 35207, 35208, 35209,
       35210, 35211, 35212, 35213, 35214, 35215, 35216, 35217, 35218, 35219, 35220, 35221, 35222, 35223,
       35224, 35225, 35226, 35227, 35228, 35229, 35230, 35231, 35232, 35233, 25671, 23591, 36965, 31377,
       35875, 23002, 21676, 33280, 33647, 35201, 32768, 26928, 22094, 32822, 29239, 37326, 20918, 20063,
       39029, 25494, 19994, 21494, 26355, 33099, 22812, 28082, 19968, 22777, 21307, 25558, 38129, 20381,
       20234, 34915, 39056, 22839, 36951, 31227, 20202, 33008, 30097, 27778, 23452, 23016, 24413, 26885,
       34433, 20506, 24050, 20057, 30691, 20197, 33402, 25233, 26131, 37009, 23673, 20159, 24441, 33222,
       36920, 32900, 30123, 20134, 35028, 24847, 27589, 24518, 20041, 30410, 28322, 35811, 35758, 35850,
       35793, 24322, 32764, 32716, 32462, 33589, 33643, 22240, 27575, 38899, 38452, 23035, 21535, 38134,
       28139, 23493, 39278, 23609, 24341, 38544, 35234, 35235, 35236, 35237, 35238, 35239, 35240, 35241,
       35242, 35243, 35244, 35245, 35246, 35247, 35248, 35249, 35250, 35251, 35252, 35253, 35254, 35255,
       35256, 35257, 35258, 35259, 35260, 35261, 35262, 35263, 35264, 35267, 35277, 35283, 35284, 35285,
       35287, 35288, 35289, 35291, 35293, 35295, 35296, 35297, 35298, 35300, 35303, 35304, 35305, 35306,
       35308, 35309, 35310, 35312, 35313, 35314, 35316, 35317, 35318, 35319, 35320, 35321, 35322, 35323,
       35324, 35325, 35326, 35327, 35329, 35330, 35331, 35332, 35333, 35334, 35336, 35337, 35338, 35339,
       35340, 35341, 35342, 35343, 35344, 35345, 35346, 35347, 35348, 35349, 35350, 35351, 35352, 35353,
       35354, 35355, 35356, 35357, 21360, 33521, 27185, 23156, 40560, 24212, 32552, 33721, 33828, 33829,
       33639, 34631, 36814, 36194, 30408, 24433, 39062, 30828, 26144, 21727, 25317, 20323, 33219, 30152,
       24248, 38605, 36362, 34553, 21647, 27891, 28044, 27704, 24703, 21191, 29992, 24189, 20248, 24736,
       24551, 23588, 30001, 37038, 38080, 29369, 27833, 28216, 37193, 26377, 21451, 21491, 20305, 37321,
       35825, 21448, 24188, 36802, 28132, 20110, 30402, 27014, 34398, 24858, 33286, 20313, 20446, 36926,
       40060, 24841, 28189, 28180, 38533, 20104, 23089, 38632, 19982, 23679, 31161, 23431, 35821, 32701,
       29577, 22495, 33419, 37057, 21505, 36935, 21947, 23786, 24481, 24840, 27442, 29425, 32946, 35465,
       35358, 35359, 35360, 35361, 35362, 35363, 35364, 35365, 35366, 35367, 35368, 35369, 35370, 35371,
       35372, 35373, 35374, 35375, 35376, 35377, 35378, 35379, 35380, 35381, 35382, 35383, 35384, 35385,
       35386, 35387, 35388, 35389, 35391, 35392, 35393, 35394, 35395, 35396, 35397, 35398, 35399, 35401,
       35402, 35403, 35404, 35405, 35406, 35407, 35408, 35409, 35410, 35411, 35412, 35413, 35414, 35415,
       35416, 35417, 35418, 35419, 35420, 35421, 35422, 35423, 35424, 35425, 35426, 35427, 35428, 35429,
       35430, 35431, 35432, 35433, 35434, 35435, 35436, 35437, 35438, 35439, 35440, 35441, 35442, 35443,
       35444, 35445, 35446, 35447, 35448, 35450, 35451, 35452, 35453, 35454, 35455, 35456, 28020, 23507,
       35029, 39044, 35947, 39533, 40499, 28170, 20900, 20803, 22435, 34945, 21407, 25588, 36757, 22253,
       21592, 22278, 29503, 28304, 32536, 36828, 33489, 24895, 24616, 38498, 26352, 32422, 36234, 36291,
       38053, 23731, 31908, 26376, 24742, 38405, 32792, 20113, 37095, 21248, 38504, 20801, 36816, 34164,
       37213, 26197, 38901, 23381, 21277, 30776, 26434, 26685, 21705, 28798, 23472, 36733, 20877, 22312,
       21681, 25874, 26242, 36190, 36163, 33039, 33900, 36973, 31967, 20991, 34299, 26531, 26089, 28577,
       34468, 36481, 22122, 36896, 30338, 28790, 29157, 36131, 25321, 21017, 27901, 36156, 24590, 22686,
       24974, 26366, 36192, 25166, 21939, 28195, 26413, 36711, 35457, 35458, 35459, 35460, 35461, 35462,
       35463, 35464, 35467, 35468, 35469, 35470, 35471, 35472, 35473, 35474, 35476, 35477, 35478, 35479,
       35480, 35481, 35482, 35483, 35484, 35485, 35486, 35487, 35488, 35489, 35490, 35491, 35492, 35493,
       35494, 35495, 35496, 35497, 35498, 35499, 35500, 35501, 35502, 35503, 35504, 35505, 35506, 35507,
       35508, 35509, 35510, 35511, 35512, 35513, 35514, 35515, 35516, 35517, 35518, 35519, 35520, 35521,
       35522, 35523, 35524, 35525, 35526, 35527, 35528, 35529, 35530, 35531, 35532, 35533, 35534, 35535,
       35536, 35537, 35538, 35539, 35540, 35541, 35542, 35543, 35544, 35545, 35546, 35547, 35548, 35549,
       35550, 35551, 35552, 35553, 35554, 35555, 38113, 38392, 30504, 26629, 27048, 21643, 20045, 28856,
       35784, 25688, 25995, 23429, 31364, 20538, 23528, 30651, 27617, 35449, 31896, 27838, 30415, 26025,
       36759, 23853, 23637, 34360, 26632, 21344, 25112, 31449, 28251, 32509, 27167, 31456, 24432, 28467,
       24352, 25484, 28072, 26454, 19976, 24080, 36134, 20183, 32960, 30260, 38556, 25307, 26157, 25214,
       27836, 36213, 29031, 32617, 20806, 32903, 21484, 36974, 25240, 21746, 34544, 36761, 32773, 38167,
       34071, 36825, 27993, 29645, 26015, 30495, 29956, 30759, 33275, 36126, 38024, 20390, 26517, 30137,
       35786, 38663, 25391, 38215, 38453, 33976, 25379, 30529, 24449, 29424, 20105, 24596, 25972, 25327,
       27491, 25919, 35556, 35557, 35558, 35559, 35560, 35561, 35562, 35563, 35564, 35565, 35566, 35567,
       35568, 35569, 35570, 35571, 35572, 35573, 35574, 35575, 35576, 35577, 35578, 35579, 35580, 35581,
       35582, 35583, 35584, 35585, 35586, 35587, 35588, 35589, 35590, 35592, 35593, 35594, 35595, 35596,
       35597, 35598, 35599, 35600, 35601, 35602, 35603, 35604, 35605, 35606, 35607, 35608, 35609, 35610,
       35611, 35612, 35613, 35614, 35615, 35616, 35617, 35618, 35619, 35620, 35621, 35623, 35624, 35625,
       35626, 35627, 35628, 35629, 35630, 35631, 35632, 35633, 35634, 35635, 35636, 35637, 35638, 35639,
       35640, 35641, 35642, 35643, 35644, 35645, 35646, 35647, 35648, 35649, 35650, 35651, 35652, 35653,
       24103, 30151, 37073, 35777, 33437, 26525, 25903, 21553, 34584, 30693, 32930, 33026, 27713, 20043,
       32455, 32844, 30452, 26893, 27542, 25191, 20540, 20356, 22336, 25351, 27490, 36286, 21482, 26088,
       32440, 24535, 25370, 25527, 33267, 33268, 32622, 24092, 23769, 21046, 26234, 31209, 31258, 36136,
       28825, 30164, 28382, 27835, 31378, 20013, 30405, 24544, 38047, 34935, 32456, 31181, 32959, 37325,
       20210, 20247, 33311, 21608, 24030, 27954, 35788, 31909, 36724, 32920, 24090, 21650, 30385, 23449,
       26172, 39588, 29664, 26666, 34523, 26417, 29482, 35832, 35803, 36880, 31481, 28891, 29038, 25284,
       30633, 22065, 20027, 33879, 26609, 21161, 34496, 36142, 38136, 31569, 35654, 35655, 35656, 35657,
       35658, 35659, 35660, 35661, 35662, 35663, 35664, 35665, 35666, 35667, 35668, 35669, 35670, 35671,
       35672, 35673, 35674, 35675, 35676, 35677, 35678, 35679, 35680, 35681, 35682, 35683, 35684, 35685,
       35687, 35688, 35689, 35690, 35691, 35693, 35694, 35695, 35696, 35697, 35698, 35699, 35700, 35701,
       35702, 35703, 35704, 35705, 35706, 35707, 35708, 35709, 35710, 35711, 35712, 35713, 35714, 35715,
       35716, 35717, 35718, 35719, 35720, 35721, 35722, 35723, 35724, 35725, 35726, 35727, 35728, 35729,
       35730, 35731, 35732, 35733, 35734, 35735, 35736, 35737, 35738, 35739, 35740, 35741, 35742, 35743,
       35756, 35761, 35771, 35783, 35792, 35818, 35849, 35870, 20303, 27880, 31069, 39547, 25235, 29226,
       25341, 19987, 30742, 36716, 25776, 36186, 31686, 26729, 24196, 35013, 22918, 25758, 22766, 29366,
       26894, 38181, 36861, 36184, 22368, 32512, 35846, 20934, 25417, 25305, 21331, 26700, 29730, 33537,
       37196, 21828, 30528, 28796, 27978, 20857, 21672, 36164, 23039, 28363, 28100, 23388, 32043, 20180,
       31869, 28371, 23376, 33258, 28173, 23383, 39683, 26837, 36394, 23447, 32508, 24635, 32437, 37049,
       36208, 22863, 25549, 31199, 36275, 21330, 26063, 31062, 35781, 38459, 32452, 38075, 32386, 22068,
       37257, 26368, 32618, 23562, 36981, 26152, 24038, 20304, 26590, 20570, 20316, 22352, 24231, 59408,
       59409, 59410, 59411, 59412, 35896, 35897, 35898, 35899, 35900, 35901, 35902, 35903, 35904, 35906,
       35907, 35908, 35909, 35912, 35914, 35915, 35917, 35918, 35919, 35920, 35921, 35922, 35923, 35924,
       35926, 35927, 35928, 35929, 35931, 35932, 35933, 35934, 35935, 35936, 35939, 35940, 35941, 35942,
       35943, 35944, 35945, 35948, 35949, 35950, 35951, 35952, 35953, 35954, 35956, 35957, 35958, 35959,
       35963, 35964, 35965, 35966, 35967, 35968, 35969, 35971, 35972, 35974, 35975, 35976, 35979, 35981,
       35982, 35983, 35984, 35985, 35986, 35987, 35989, 35990, 35991, 35993, 35994, 35995, 35996, 35997,
       35998, 35999, 36000, 36001, 36002, 36003, 36004, 36005, 36006, 36007, 36008, 36009, 36010, 36011,
       36012, 36013, 20109, 19980, 20800, 19984, 24319, 21317, 19989, 20120, 19998, 39730, 23404, 22121,
       20008, 31162, 20031, 21269, 20039, 22829, 29243, 21358, 27664, 22239, 32996, 39319, 27603, 30590,
       40727, 20022, 20127, 40720, 20060, 20073, 20115, 33416, 23387, 21868, 22031, 20164, 21389, 21405,
       21411, 21413, 21422, 38757, 36189, 21274, 21493, 21286, 21294, 21310, 36188, 21350, 21347, 20994,
       21000, 21006, 21037, 21043, 21055, 21056, 21068, 21086, 21089, 21084, 33967, 21117, 21122, 21121,
       21136, 21139, 20866, 32596, 20155, 20163, 20169, 20162, 20200, 20193, 20203, 20190, 20251, 20211,
       20258, 20324, 20213, 20261, 20263, 20233, 20267, 20318, 20327, 25912, 20314, 20317, 36014, 36015,
       36016, 36017, 36018, 36019, 36020, 36021, 36022, 36023, 36024, 36025, 36026, 36027, 36028, 36029,
       36030, 36031, 36032, 36033, 36034, 36035, 36036, 36037, 36038, 36039, 36040, 36041, 36042, 36043,
       36044, 36045, 36046, 36047, 36048, 36049, 36050, 36051, 36052, 36053, 36054, 36055, 36056, 36057,
       36058, 36059, 36060, 36061, 36062, 36063, 36064, 36065, 36066, 36067, 36068, 36069, 36070, 36071,
       36072, 36073, 36074, 36075, 36076, 36077, 36078, 36079, 36080, 36081, 36082, 36083, 36084, 36085,
       36086, 36087, 36088, 36089, 36090, 36091, 36092, 36093, 36094, 36095, 36096, 36097, 36098, 36099,
       36100, 36101, 36102, 36103, 36104, 36105, 36106, 36107, 36108, 36109, 20319, 20311, 20274, 20285,
       20342, 20340, 20369, 20361, 20355, 20367, 20350, 20347, 20394, 20348, 20396, 20372, 20454, 20456,
       20458, 20421, 20442, 20451, 20444, 20433, 20447, 20472, 20521, 20556, 20467, 20524, 20495, 20526,
       20525, 20478, 20508, 20492, 20517, 20520, 20606, 20547, 20565, 20552, 20558, 20588, 20603, 20645,
       20647, 20649, 20666, 20694, 20742, 20717, 20716, 20710, 20718, 20743, 20747, 20189, 27709, 20312,
       20325, 20430, 40864, 27718, 31860, 20846, 24061, 40649, 39320, 20865, 22804, 21241, 21261, 35335,
       21264, 20971, 22809, 20821, 20128, 20822, 20147, 34926, 34980, 20149, 33044, 35026, 31104, 23348,
       34819, 32696, 20907, 20913, 20925, 20924, 36110, 36111, 36112, 36113, 36114, 36115, 36116, 36117,
       36118, 36119, 36120, 36121, 36122, 36123, 36124, 36128, 36177, 36178, 36183, 36191, 36197, 36200,
       36201, 36202, 36204, 36206, 36207, 36209, 36210, 36216, 36217, 36218, 36219, 36220, 36221, 36222,
       36223, 36224, 36226, 36227, 36230, 36231, 36232, 36233, 36236, 36237, 36238, 36239, 36240, 36242,
       36243, 36245, 36246, 36247, 36248, 36249, 36250, 36251, 36252, 36253, 36254, 36256, 36257, 36258,
       36260, 36261, 36262, 36263, 36264, 36265, 36266, 36267, 36268, 36269, 36270, 36271, 36272, 36274,
       36278, 36279, 36281, 36283, 36285, 36288, 36289, 36290, 36293, 36295, 36296, 36297, 36298, 36301,
       36304, 36306, 36307, 36308, 20935, 20886, 20898, 20901, 35744, 35750, 35751, 35754, 35764, 35765,
       35767, 35778, 35779, 35787, 35791, 35790, 35794, 35795, 35796, 35798, 35800, 35801, 35804, 35807,
       35808, 35812, 35816, 35817, 35822, 35824, 35827, 35830, 35833, 35836, 35839, 35840, 35842, 35844,
       35847, 35852, 35855, 35857, 35858, 35860, 35861, 35862, 35865, 35867, 35864, 35869, 35871, 35872,
       35873, 35877, 35879, 35882, 35883, 35886, 35887, 35890, 35891, 35893, 35894, 21353, 21370, 38429,
       38434, 38433, 38449, 38442, 38461, 38460, 38466, 38473, 38484, 38495, 38503, 38508, 38514, 38516,
       38536, 38541, 38551, 38576, 37015, 37019, 37021, 37017, 37036, 37025, 37044, 37043, 37046, 37050,
       36309, 36312, 36313, 36316, 36320, 36321, 36322, 36325, 36326, 36327, 36329, 36333, 36334, 36336,
       36337, 36338, 36340, 36342, 36348, 36350, 36351, 36352, 36353, 36354, 36355, 36356, 36358, 36359,
       36360, 36363, 36365, 36366, 36368, 36369, 36370, 36371, 36373, 36374, 36375, 36376, 36377, 36378,
       36379, 36380, 36384, 36385, 36388, 36389, 36390, 36391, 36392, 36395, 36397, 36400, 36402, 36403,
       36404, 36406, 36407, 36408, 36411, 36412, 36414, 36415, 36419, 36421, 36422, 36428, 36429, 36430,
       36431, 36432, 36435, 36436, 36437, 36438, 36439, 36440, 36442, 36443, 36444, 36445, 36446, 36447,
       36448, 36449, 36450, 36451, 36452, 36453, 36455, 36456, 36458, 36459, 36462, 36465, 37048, 37040,
       37071, 37061, 37054, 37072, 37060, 37063, 37075, 37094, 37090, 37084, 37079, 37083, 37099, 37103,
       37118, 37124, 37154, 37150, 37155, 37169, 37167, 37177, 37187, 37190, 21005, 22850, 21154, 21164,
       21165, 21182, 21759, 21200, 21206, 21232, 21471, 29166, 30669, 24308, 20981, 20988, 39727, 21430,
       24321, 30042, 24047, 22348, 22441, 22433, 22654, 22716, 22725, 22737, 22313, 22316, 22314, 22323,
       22329, 22318, 22319, 22364, 22331, 22338, 22377, 22405, 22379, 22406, 22396, 22395, 22376, 22381,
       22390, 22387, 22445, 22436, 22412, 22450, 22479, 22439, 22452, 22419, 22432, 22485, 22488, 22490,
       22489, 22482, 22456, 22516, 22511, 22520, 22500, 22493, 36467, 36469, 36471, 36472, 36473, 36474,
       36475, 36477, 36478, 36480, 36482, 36483, 36484, 36486, 36488, 36489, 36490, 36491, 36492, 36493,
       36494, 36497, 36498, 36499, 36501, 36502, 36503, 36504, 36505, 36506, 36507, 36509, 36511, 36512,
       36513, 36514, 36515, 36516, 36517, 36518, 36519, 36520, 36521, 36522, 36525, 36526, 36528, 36529,
       36531, 36532, 36533, 36534, 36535, 36536, 36537, 36539, 36540, 36541, 36542, 36543, 36544, 36545,
       36546, 36547, 36548, 36549, 36550, 36551, 36552, 36553, 36554, 36555, 36556, 36557, 36559, 36560,
       36561, 36562, 36563, 36564, 36565, 36566, 36567, 36568, 36569, 36570, 36571, 36572, 36573, 36574,
       36575, 36576, 36577, 36578, 36579, 36580, 22539, 22541, 22525, 22509, 22528, 22558, 22553, 22596,
       22560, 22629, 22636, 22657, 22665, 22682, 22656, 39336, 40729, 25087, 33401, 33405, 33407, 33423,
       33418, 33448, 33412, 33422, 33425, 33431, 33433, 33451, 33464, 33470, 33456, 33480, 33482, 33507,
       33432, 33463, 33454, 33483, 33484, 33473, 33449, 33460, 33441, 33450, 33439, 33476, 33486, 33444,
       33505, 33545, 33527, 33508, 33551, 33543, 33500, 33524, 33490, 33496, 33548, 33531, 33491, 33553,
       33562, 33542, 33556, 33557, 33504, 33493, 33564, 33617, 33627, 33628, 33544, 33682, 33596, 33588,
       33585, 33691, 33630, 33583, 33615, 33607, 33603, 33631, 33600, 33559, 33632, 33581, 33594, 33587,
       33638, 33637, 36581, 36582, 36583, 36584, 36585, 36586, 36587, 36588, 36589, 36590, 36591, 36592,
       36593, 36594, 36595, 36596, 36597, 36598, 36599, 36600, 36601, 36602, 36603, 36604, 36605, 36606,
       36607, 36608, 36609, 36610, 36611, 36612, 36613, 36614, 36615, 36616, 36617, 36618, 36619, 36620,
       36621, 36622, 36623, 36624, 36625, 36626, 36627, 36628, 36629, 36630, 36631, 36632, 36633, 36634,
       36635, 36636, 36637, 36638, 36639, 36640, 36641, 36642, 36643, 36644, 36645, 36646, 36647, 36648,
       36649, 36650, 36651, 36652, 36653, 36654, 36655, 36656, 36657, 36658, 36659, 36660, 36661, 36662,
       36663, 36664, 36665, 36666, 36667, 36668, 36669, 36670, 36671, 36672, 36673, 36674, 36675, 36676,
       33640, 33563, 33641, 33644, 33642, 33645, 33646, 33712, 33656, 33715, 33716, 33696, 33706, 33683,
       33692, 33669, 33660, 33718, 33705, 33661, 33720, 33659, 33688, 33694, 33704, 33722, 33724, 33729,
       33793, 33765, 33752, 22535, 33816, 33803, 33757, 33789, 33750, 33820, 33848, 33809, 33798, 33748,
       33759, 33807, 33795, 33784, 33785, 33770, 33733, 33728, 33830, 33776, 33761, 33884, 33873, 33882,
       33881, 33907, 33927, 33928, 33914, 33929, 33912, 33852, 33862, 33897, 33910, 33932, 33934, 33841,
       33901, 33985, 33997, 34000, 34022, 33981, 34003, 33994, 33983, 33978, 34016, 33953, 33977, 33972,
       33943, 34021, 34019, 34060, 29965, 34104, 34032, 34105, 34079, 34106, 36677, 36678, 36679, 36680,
       36681, 36682, 36683, 36684, 36685, 36686, 36687, 36688, 36689, 36690, 36691, 36692, 36693, 36694,
       36695, 36696, 36697, 36698, 36699, 36700, 36701, 36702, 36703, 36704, 36705, 36706, 36707, 36708,
       36709, 36714, 36736, 36748, 36754, 36765, 36768, 36769, 36770, 36772, 36773, 36774, 36775, 36778,
       36780, 36781, 36782, 36783, 36786, 36787, 36788, 36789, 36791, 36792, 36794, 36795, 36796, 36799,
       36800, 36803, 36806, 36809, 36810, 36811, 36812, 36813, 36815, 36818, 36822, 36823, 36826, 36832,
       36833, 36835, 36839, 36844, 36847, 36849, 36850, 36852, 36853, 36854, 36858, 36859, 36860, 36862,
       36863, 36871, 36872, 36876, 36878, 36883, 36885, 36888, 34134, 34107, 34047, 34044, 34137, 34120,
       34152, 34148, 34142, 34170, 30626, 34115, 34162, 34171, 34212, 34216, 34183, 34191, 34169, 34222,
       34204, 34181, 34233, 34231, 34224, 34259, 34241, 34268, 34303, 34343, 34309, 34345, 34326, 34364,
       24318, 24328, 22844, 22849, 32823, 22869, 22874, 22872, 21263, 23586, 23589, 23596, 23604, 25164,
       25194, 25247, 25275, 25290, 25306, 25303, 25326, 25378, 25334, 25401, 25419, 25411, 25517, 25590,
       25457, 25466, 25486, 25524, 25453, 25516, 25482, 25449, 25518, 25532, 25586, 25592, 25568, 25599,
       25540, 25566, 25550, 25682, 25542, 25534, 25669, 25665, 25611, 25627, 25632, 25612, 25638, 25633,
       25694, 25732, 25709, 25750, 36889, 36892, 36899, 36900, 36901, 36903, 36904, 36905, 36906, 36907,
       36908, 36912, 36913, 36914, 36915, 36916, 36919, 36921, 36922, 36925, 36927, 36928, 36931, 36933,
       36934, 36936, 36937, 36938, 36939, 36940, 36942, 36948, 36949, 36950, 36953, 36954, 36956, 36957,
       36958, 36959, 36960, 36961, 36964, 36966, 36967, 36969, 36970, 36971, 36972, 36975, 36976, 36977,
       36978, 36979, 36982, 36983, 36984, 36985, 36986, 36987, 36988, 36990, 36993, 36996, 36997, 36998,
       36999, 37001, 37002, 37004, 37005, 37006, 37007, 37008, 37010, 37012, 37014, 37016, 37018, 37020,
       37022, 37023, 37024, 37028, 37029, 37031, 37032, 37033, 37035, 37037, 37042, 37047, 37052, 37053,
       37055, 37056, 25722, 25783, 25784, 25753, 25786, 25792, 25808, 25815, 25828, 25826, 25865, 25893,
       25902, 24331, 24530, 29977, 24337, 21343, 21489, 21501, 21481, 21480, 21499, 21522, 21526, 21510,
       21579, 21586, 21587, 21588, 21590, 21571, 21537, 21591, 21593, 21539, 21554, 21634, 21652, 21623,
       21617, 21604, 21658, 21659, 21636, 21622, 21606, 21661, 21712, 21677, 21698, 21684, 21714, 21671,
       21670, 21715, 21716, 21618, 21667, 21717, 21691, 21695, 21708, 21721, 21722, 21724, 21673, 21674,
       21668, 21725, 21711, 21726, 21787, 21735, 21792, 21757, 21780, 21747, 21794, 21795, 21775, 21777,
       21799, 21802, 21863, 21903, 21941, 21833, 21869, 21825, 21845, 21823, 21840, 21820, 37058, 37059,
       37062, 37064, 37065, 37067, 37068, 37069, 37074, 37076, 37077, 37078, 37080, 37081, 37082, 37086,
       37087, 37088, 37091, 37092, 37093, 37097, 37098, 37100, 37102, 37104, 37105, 37106, 37107, 37109,
       37110, 37111, 37113, 37114, 37115, 37116, 37119, 37120, 37121, 37123, 37125, 37126, 37127, 37128,
       37129, 37130, 37131, 37132, 37133, 37134, 37135, 37136, 37137, 37138, 37139, 37140, 37141, 37142,
       37143, 37144, 37146, 37147, 37148, 37149, 37151, 37152, 37153, 37156, 37157, 37158, 37159, 37160,
       37161, 37162, 37163, 37164, 37165, 37166, 37168, 37170, 37171, 37172, 37173, 37174, 37175, 37176,
       37178, 37179, 37180, 37181, 37182, 37183, 37184, 37185, 37186, 37188, 21815, 21846, 21877, 21878,
       21879, 21811, 21808, 21852, 21899, 21970, 21891, 21937, 21945, 21896, 21889, 21919, 21886, 21974,
       21905, 21883, 21983, 21949, 21950, 21908, 21913, 21994, 22007, 21961, 22047, 21969, 21995, 21996,
       21972, 21990, 21981, 21956, 21999, 21989, 22002, 22003, 21964, 21965, 21992, 22005, 21988, 36756,
       22046, 22024, 22028, 22017, 22052, 22051, 22014, 22016, 22055, 22061, 22104, 22073, 22103, 22060,
       22093, 22114, 22105, 22108, 22092, 22100, 22150, 22116, 22129, 22123, 22139, 22140, 22149, 22163,
       22191, 22228, 22231, 22237, 22241, 22261, 22251, 22265, 22271, 22276, 22282, 22281, 22300, 24079,
       24089, 24084, 24081, 24113, 24123, 24124, 37189, 37191, 37192, 37201, 37203, 37204, 37205, 37206,
       37208, 37209, 37211, 37212, 37215, 37216, 37222, 37223, 37224, 37227, 37229, 37235, 37242, 37243,
       37244, 37248, 37249, 37250, 37251, 37252, 37254, 37256, 37258, 37262, 37263, 37267, 37268, 37269,
       37270, 37271, 37272, 37273, 37276, 37277, 37278, 37279, 37280, 37281, 37284, 37285, 37286, 37287,
       37288, 37289, 37291, 37292, 37296, 37297, 37298, 37299, 37302, 37303, 37304, 37305, 37307, 37308,
       37309, 37310, 37311, 37312, 37313, 37314, 37315, 37316, 37317, 37318, 37320, 37323, 37328, 37330,
       37331, 37332, 37333, 37334, 37335, 37336, 37337, 37338, 37339, 37341, 37342, 37343, 37344, 37345,
       37346, 37347, 37348, 37349, 24119, 24132, 24148, 24155, 24158, 24161, 23692, 23674, 23693, 23696,
       23702, 23688, 23704, 23705, 23697, 23706, 23708, 23733, 23714, 23741, 23724, 23723, 23729, 23715,
       23745, 23735, 23748, 23762, 23780, 23755, 23781, 23810, 23811, 23847, 23846, 23854, 23844, 23838,
       23814, 23835, 23896, 23870, 23860, 23869, 23916, 23899, 23919, 23901, 23915, 23883, 23882, 23913,
       23924, 23938, 23961, 23965, 35955, 23991, 24005, 24435, 24439, 24450, 24455, 24457, 24460, 24469,
       24473, 24476, 24488, 24493, 24501, 24508, 34914, 24417, 29357, 29360, 29364, 29367, 29368, 29379,
       29377, 29390, 29389, 29394, 29416, 29423, 29417, 29426, 29428, 29431, 29441, 29427, 29443, 29434,
       37350, 37351, 37352, 37353, 37354, 37355, 37356, 37357, 37358, 37359, 37360, 37361, 37362, 37363,
       37364, 37365, 37366, 37367, 37368, 37369, 37370, 37371, 37372, 37373, 37374, 37375, 37376, 37377,
       37378, 37379, 37380, 37381, 37382, 37383, 37384, 37385, 37386, 37387, 37388, 37389, 37390, 37391,
       37392, 37393, 37394, 37395, 37396, 37397, 37398, 37399, 37400, 37401, 37402, 37403, 37404, 37405,
       37406, 37407, 37408, 37409, 37410, 37411, 37412, 37413, 37414, 37415, 37416, 37417, 37418, 37419,
       37420, 37421, 37422, 37423, 37424, 37425, 37426, 37427, 37428, 37429, 37430, 37431, 37432, 37433,
       37434, 37435, 37436, 37437, 37438, 37439, 37440, 37441, 37442, 37443, 37444, 37445, 29435, 29463,
       29459, 29473, 29450, 29470, 29469, 29461, 29474, 29497, 29477, 29484, 29496, 29489, 29520, 29517,
       29527, 29536, 29548, 29551, 29566, 33307, 22821, 39143, 22820, 22786, 39267, 39271, 39272, 39273,
       39274, 39275, 39276, 39284, 39287, 39293, 39296, 39300, 39303, 39306, 39309, 39312, 39313, 39315,
       39316, 39317, 24192, 24209, 24203, 24214, 24229, 24224, 24249, 24245, 24254, 24243, 36179, 24274,
       24273, 24283, 24296, 24298, 33210, 24516, 24521, 24534, 24527, 24579, 24558, 24580, 24545, 24548,
       24574, 24581, 24582, 24554, 24557, 24568, 24601, 24629, 24614, 24603, 24591, 24589, 24617, 24619,
       24586, 24639, 24609, 24696, 24697, 24699, 24698, 24642, 37446, 37447, 37448, 37449, 37450, 37451,
       37452, 37453, 37454, 37455, 37456, 37457, 37458, 37459, 37460, 37461, 37462, 37463, 37464, 37465,
       37466, 37467, 37468, 37469, 37470, 37471, 37472, 37473, 37474, 37475, 37476, 37477, 37478, 37479,
       37480, 37481, 37482, 37483, 37484, 37485, 37486, 37487, 37488, 37489, 37490, 37491, 37493, 37494,
       37495, 37496, 37497, 37498, 37499, 37500, 37501, 37502, 37503, 37504, 37505, 37506, 37507, 37508,
       37509, 37510, 37511, 37512, 37513, 37514, 37515, 37516, 37517, 37519, 37520, 37521, 37522, 37523,
       37524, 37525, 37526, 37527, 37528, 37529, 37530, 37531, 37532, 37533, 37534, 37535, 37536, 37537,
       37538, 37539, 37540, 37541, 37542, 37543, 24682, 24701, 24726, 24730, 24749, 24733, 24707, 24722,
       24716, 24731, 24812, 24763, 24753, 24797, 24792, 24774, 24794, 24756, 24864, 24870, 24853, 24867,
       24820, 24832, 24846, 24875, 24906, 24949, 25004, 24980, 24999, 25015, 25044, 25077, 24541, 38579,
       38377, 38379, 38385, 38387, 38389, 38390, 38396, 38398, 38403, 38404, 38406, 38408, 38410, 38411,
       38412, 38413, 38415, 38418, 38421, 38422, 38423, 38425, 38426, 20012, 29247, 25109, 27701, 27732,
       27740, 27722, 27811, 27781, 27792, 27796, 27788, 27752, 27753, 27764, 27766, 27782, 27817, 27856,
       27860, 27821, 27895, 27896, 27889, 27863, 27826, 27872, 27862, 27898, 27883, 27886, 27825, 27859,
       27887, 27902, 37544, 37545, 37546, 37547, 37548, 37549, 37551, 37552, 37553, 37554, 37555, 37556,
       37557, 37558, 37559, 37560, 37561, 37562, 37563, 37564, 37565, 37566, 37567, 37568, 37569, 37570,
       37571, 37572, 37573, 37574, 37575, 37577, 37578, 37579, 37580, 37581, 37582, 37583, 37584, 37585,
       37586, 37587, 37588, 37589, 37590, 37591, 37592, 37593, 37594, 37595, 37596, 37597, 37598, 37599,
       37600, 37601, 37602, 37603, 37604, 37605, 37606, 37607, 37608, 37609, 37610, 37611, 37612, 37613,
       37614, 37615, 37616, 37617, 37618, 37619, 37620, 37621, 37622, 37623, 37624, 37625, 37626, 37627,
       37628, 37629, 37630, 37631, 37632, 37633, 37634, 37635, 37636, 37637, 37638, 37639, 37640, 37641,
       27961, 27943, 27916, 27971, 27976, 27911, 27908, 27929, 27918, 27947, 27981, 27950, 27957, 27930,
       27983, 27986, 27988, 27955, 28049, 28015, 28062, 28064, 27998, 28051, 28052, 27996, 28000, 28028,
       28003, 28186, 28103, 28101, 28126, 28174, 28095, 28128, 28177, 28134, 28125, 28121, 28182, 28075,
       28172, 28078, 28203, 28270, 28238, 28267, 28338, 28255, 28294, 28243, 28244, 28210, 28197, 28228,
       28383, 28337, 28312, 28384, 28461, 28386, 28325, 28327, 28349, 28347, 28343, 28375, 28340, 28367,
       28303, 28354, 28319, 28514, 28486, 28487, 28452, 28437, 28409, 28463, 28470, 28491, 28532, 28458,
       28425, 28457, 28553, 28557, 28556, 28536, 28530, 28540, 28538, 28625, 37642, 37643, 37644, 37645,
       37646, 37647, 37648, 37649, 37650, 37651, 37652, 37653, 37654, 37655, 37656, 37657, 37658, 37659,
       37660, 37661, 37662, 37663, 37664, 37665, 37666, 37667, 37668, 37669, 37670, 37671, 37672, 37673,
       37674, 37675, 37676, 37677, 37678, 37679, 37680, 37681, 37682, 37683, 37684, 37685, 37686, 37687,
       37688, 37689, 37690, 37691, 37692, 37693, 37695, 37696, 37697, 37698, 37699, 37700, 37701, 37702,
       37703, 37704, 37705, 37706, 37707, 37708, 37709, 37710, 37711, 37712, 37713, 37714, 37715, 37716,
       37717, 37718, 37719, 37720, 37721, 37722, 37723, 37724, 37725, 37726, 37727, 37728, 37729, 37730,
       37731, 37732, 37733, 37734, 37735, 37736, 37737, 37739, 28617, 28583, 28601, 28598, 28610, 28641,
       28654, 28638, 28640, 28655, 28698, 28707, 28699, 28729, 28725, 28751, 28766, 23424, 23428, 23445,
       23443, 23461, 23480, 29999, 39582, 25652, 23524, 23534, 35120, 23536, 36423, 35591, 36790, 36819,
       36821, 36837, 36846, 36836, 36841, 36838, 36851, 36840, 36869, 36868, 36875, 36902, 36881, 36877,
       36886, 36897, 36917, 36918, 36909, 36911, 36932, 36945, 36946, 36944, 36968, 36952, 36962, 36955,
       26297, 36980, 36989, 36994, 37000, 36995, 37003, 24400, 24407, 24406, 24408, 23611, 21675, 23632,
       23641, 23409, 23651, 23654, 32700, 24362, 24361, 24365, 33396, 24380, 39739, 23662, 22913, 22915,
       22925, 22953, 22954, 22947, 37740, 37741, 37742, 37743, 37744, 37745, 37746, 37747, 37748, 37749,
       37750, 37751, 37752, 37753, 37754, 37755, 37756, 37757, 37758, 37759, 37760, 37761, 37762, 37763,
       37764, 37765, 37766, 37767, 37768, 37769, 37770, 37771, 37772, 37773, 37774, 37776, 37777, 37778,
       37779, 37780, 37781, 37782, 37783, 37784, 37785, 37786, 37787, 37788, 37789, 37790, 37791, 37792,
       37793, 37794, 37795, 37796, 37797, 37798, 37799, 37800, 37801, 37802, 37803, 37804, 37805, 37806,
       37807, 37808, 37809, 37810, 37811, 37812, 37813, 37814, 37815, 37816, 37817, 37818, 37819, 37820,
       37821, 37822, 37823, 37824, 37825, 37826, 37827, 37828, 37829, 37830, 37831, 37832, 37833, 37835,
       37836, 37837, 22935, 22986, 22955, 22942, 22948, 22994, 22962, 22959, 22999, 22974, 23045, 23046,
       23005, 23048, 23011, 23000, 23033, 23052, 23049, 23090, 23092, 23057, 23075, 23059, 23104, 23143,
       23114, 23125, 23100, 23138, 23157, 33004, 23210, 23195, 23159, 23162, 23230, 23275, 23218, 23250,
       23252, 23224, 23264, 23267, 23281, 23254, 23270, 23256, 23260, 23305, 23319, 23318, 23346, 23351,
       23360, 23573, 23580, 23386, 23397, 23411, 23377, 23379, 23394, 39541, 39543, 39544, 39546, 39551,
       39549, 39552, 39553, 39557, 39560, 39562, 39568, 39570, 39571, 39574, 39576, 39579, 39580, 39581,
       39583, 39584, 39586, 39587, 39589, 39591, 32415, 32417, 32419, 32421, 32424, 32425, 37838, 37839,
       37840, 37841, 37842, 37843, 37844, 37845, 37847, 37848, 37849, 37850, 37851, 37852, 37853, 37854,
       37855, 37856, 37857, 37858, 37859, 37860, 37861, 37862, 37863, 37864, 37865, 37866, 37867, 37868,
       37869, 37870, 37871, 37872, 37873, 37874, 37875, 37876, 37877, 37878, 37879, 37880, 37881, 37882,
       37883, 37884, 37885, 37886, 37887, 37888, 37889, 37890, 37891, 37892, 37893, 37894, 37895, 37896,
       37897, 37898, 37899, 37900, 37901, 37902, 37903, 37904, 37905, 37906, 37907, 37908, 37909, 37910,
       37911, 37912, 37913, 37914, 37915, 37916, 37917, 37918, 37919, 37920, 37921, 37922, 37923, 37924,
       37925, 37926, 37927, 37928, 37929, 37930, 37931, 37932, 37933, 37934, 32429, 32432, 32446, 32448,
       32449, 32450, 32457, 32459, 32460, 32464, 32468, 32471, 32475, 32480, 32481, 32488, 32491, 32494,
       32495, 32497, 32498, 32525, 32502, 32506, 32507, 32510, 32513, 32514, 32515, 32519, 32520, 32523,
       32524, 32527, 32529, 32530, 32535, 32537, 32540, 32539, 32543, 32545, 32546, 32547, 32548, 32549,
       32550, 32551, 32554, 32555, 32556, 32557, 32559, 32560, 32561, 32562, 32563, 32565, 24186, 30079,
       24027, 30014, 37013, 29582, 29585, 29614, 29602, 29599, 29647, 29634, 29649, 29623, 29619, 29632,
       29641, 29640, 29669, 29657, 39036, 29706, 29673, 29671, 29662, 29626, 29682, 29711, 29738, 29787,
       29734, 29733, 29736, 29744, 29742, 29740, 37935, 37936, 37937, 37938, 37939, 37940, 37941, 37942,
       37943, 37944, 37945, 37946, 37947, 37948, 37949, 37951, 37952, 37953, 37954, 37955, 37956, 37957,
       37958, 37959, 37960, 37961, 37962, 37963, 37964, 37965, 37966, 37967, 37968, 37969, 37970, 37971,
       37972, 37973, 37974, 37975, 37976, 37977, 37978, 37979, 37980, 37981, 37982, 37983, 37984, 37985,
       37986, 37987, 37988, 37989, 37990, 37991, 37992, 37993, 37994, 37996, 37997, 37998, 37999, 38000,
       38001, 38002, 38003, 38004, 38005, 38006, 38007, 38008, 38009, 38010, 38011, 38012, 38013, 38014,
       38015, 38016, 38017, 38018, 38019, 38020, 38033, 38038, 38040, 38087, 38095, 38099, 38100, 38106,
       38118, 38139, 38172, 38176, 29723, 29722, 29761, 29788, 29783, 29781, 29785, 29815, 29805, 29822,
       29852, 29838, 29824, 29825, 29831, 29835, 29854, 29864, 29865, 29840, 29863, 29906, 29882, 38890,
       38891, 38892, 26444, 26451, 26462, 26440, 26473, 26533, 26503, 26474, 26483, 26520, 26535, 26485,
       26536, 26526, 26541, 26507, 26487, 26492, 26608, 26633, 26584, 26634, 26601, 26544, 26636, 26585,
       26549, 26586, 26547, 26589, 26624, 26563, 26552, 26594, 26638, 26561, 26621, 26674, 26675, 26720,
       26721, 26702, 26722, 26692, 26724, 26755, 26653, 26709, 26726, 26689, 26727, 26688, 26686, 26698,
       26697, 26665, 26805, 26767, 26740, 26743, 26771, 26731, 26818, 26990, 26876, 26911, 26912, 26873,
       38183, 38195, 38205, 38211, 38216, 38219, 38229, 38234, 38240, 38254, 38260, 38261, 38263, 38264,
       38265, 38266, 38267, 38268, 38269, 38270, 38272, 38273, 38274, 38275, 38276, 38277, 38278, 38279,
       38280, 38281, 38282, 38283, 38284, 38285, 38286, 38287, 38288, 38289, 38290, 38291, 38292, 38293,
       38294, 38295, 38296, 38297, 38298, 38299, 38300, 38301, 38302, 38303, 38304, 38305, 38306, 38307,
       38308, 38309, 38310, 38311, 38312, 38313, 38314, 38315, 38316, 38317, 38318, 38319, 38320, 38321,
       38322, 38323, 38324, 38325, 38326, 38327, 38328, 38329, 38330, 38331, 38332, 38333, 38334, 38335,
       38336, 38337, 38338, 38339, 38340, 38341, 38342, 38343, 38344, 38345, 38346, 38347, 26916, 26864,
       26891, 26881, 26967, 26851, 26896, 26993, 26937, 26976, 26946, 26973, 27012, 26987, 27008, 27032,
       27000, 26932, 27084, 27015, 27016, 27086, 27017, 26982, 26979, 27001, 27035, 27047, 27067, 27051,
       27053, 27092, 27057, 27073, 27082, 27103, 27029, 27104, 27021, 27135, 27183, 27117, 27159, 27160,
       27237, 27122, 27204, 27198, 27296, 27216, 27227, 27189, 27278, 27257, 27197, 27176, 27224, 27260,
       27281, 27280, 27305, 27287, 27307, 29495, 29522, 27521, 27522, 27527, 27524, 27538, 27539, 27533,
       27546, 27547, 27553, 27562, 36715, 36717, 36721, 36722, 36723, 36725, 36726, 36728, 36727, 36729,
       36730, 36732, 36734, 36737, 36738, 36740, 36743, 36747, 38348, 38349, 38350, 38351, 38352, 38353,
       38354, 38355, 38356, 38357, 38358, 38359, 38360, 38361, 38362, 38363, 38364, 38365, 38366, 38367,
       38368, 38369, 38370, 38371, 38372, 38373, 38374, 38375, 38380, 38399, 38407, 38419, 38424, 38427,
       38430, 38432, 38435, 38436, 38437, 38438, 38439, 38440, 38441, 38443, 38444, 38445, 38447, 38448,
       38455, 38456, 38457, 38458, 38462, 38465, 38467, 38474, 38478, 38479, 38481, 38482, 38483, 38486,
       38487, 38488, 38489, 38490, 38492, 38493, 38494, 38496, 38499, 38501, 38502, 38507, 38509, 38510,
       38511, 38512, 38513, 38515, 38520, 38521, 38522, 38523, 38524, 38525, 38526, 38527, 38528, 38529,
       38530, 38531, 38532, 38535, 38537, 38538, 36749, 36750, 36751, 36760, 36762, 36558, 25099, 25111,
       25115, 25119, 25122, 25121, 25125, 25124, 25132, 33255, 29935, 29940, 29951, 29967, 29969, 29971,
       25908, 26094, 26095, 26096, 26122, 26137, 26482, 26115, 26133, 26112, 28805, 26359, 26141, 26164,
       26161, 26166, 26165, 32774, 26207, 26196, 26177, 26191, 26198, 26209, 26199, 26231, 26244, 26252,
       26279, 26269, 26302, 26331, 26332, 26342, 26345, 36146, 36147, 36150, 36155, 36157, 36160, 36165,
       36166, 36168, 36169, 36167, 36173, 36181, 36185, 35271, 35274, 35275, 35276, 35278, 35279, 35280,
       35281, 29294, 29343, 29277, 29286, 29295, 29310, 29311, 29316, 29323, 29325, 29327, 29330, 25352,
       25394, 25520, 38540, 38542, 38545, 38546, 38547, 38549, 38550, 38554, 38555, 38557, 38558, 38559,
       38560, 38561, 38562, 38563, 38564, 38565, 38566, 38568, 38569, 38570, 38571, 38572, 38573, 38574,
       38575, 38577, 38578, 38580, 38581, 38583, 38584, 38586, 38587, 38591, 38594, 38595, 38600, 38602,
       38603, 38608, 38609, 38611, 38612, 38614, 38615, 38616, 38617, 38618, 38619, 38620, 38621, 38622,
       38623, 38625, 38626, 38627, 38628, 38629, 38630, 38631, 38635, 38636, 38637, 38638, 38640, 38641,
       38642, 38644, 38645, 38648, 38650, 38651, 38652, 38653, 38655, 38658, 38659, 38661, 38666, 38667,
       38668, 38672, 38673, 38674, 38676, 38677, 38679, 38680, 38681, 38682, 38683, 38685, 38687, 38688,
       25663, 25816, 32772, 27626, 27635, 27645, 27637, 27641, 27653, 27655, 27654, 27661, 27669, 27672,
       27673, 27674, 27681, 27689, 27684, 27690, 27698, 25909, 25941, 25963, 29261, 29266, 29270, 29232,
       34402, 21014, 32927, 32924, 32915, 32956, 26378, 32957, 32945, 32939, 32941, 32948, 32951, 32999,
       33000, 33001, 33002, 32987, 32962, 32964, 32985, 32973, 32983, 26384, 32989, 33003, 33009, 33012,
       33005, 33037, 33038, 33010, 33020, 26389, 33042, 35930, 33078, 33054, 33068, 33048, 33074, 33096,
       33100, 33107, 33140, 33113, 33114, 33137, 33120, 33129, 33148, 33149, 33133, 33127, 22605, 23221,
       33160, 33154, 33169, 28373, 33187, 33194, 33228, 26406, 33226, 33211, 38689, 38690, 38691, 38692,
       38693, 38694, 38695, 38696, 38697, 38699, 38700, 38702, 38703, 38705, 38707, 38708, 38709, 38710,
       38711, 38714, 38715, 38716, 38717, 38719, 38720, 38721, 38722, 38723, 38724, 38725, 38726, 38727,
       38728, 38729, 38730, 38731, 38732, 38733, 38734, 38735, 38736, 38737, 38740, 38741, 38743, 38744,
       38746, 38748, 38749, 38751, 38755, 38756, 38758, 38759, 38760, 38762, 38763, 38764, 38765, 38766,
       38767, 38768, 38769, 38770, 38773, 38775, 38776, 38777, 38778, 38779, 38781, 38782, 38783, 38784,
       38785, 38786, 38787, 38788, 38790, 38791, 38792, 38793, 38794, 38796, 38798, 38799, 38800, 38803,
       38805, 38806, 38807, 38809, 38810, 38811, 38812, 38813, 33217, 33190, 27428, 27447, 27449, 27459,
       27462, 27481, 39121, 39122, 39123, 39125, 39129, 39130, 27571, 24384, 27586, 35315, 26000, 40785,
       26003, 26044, 26054, 26052, 26051, 26060, 26062, 26066, 26070, 28800, 28828, 28822, 28829, 28859,
       28864, 28855, 28843, 28849, 28904, 28874, 28944, 28947, 28950, 28975, 28977, 29043, 29020, 29032,
       28997, 29042, 29002, 29048, 29050, 29080, 29107, 29109, 29096, 29088, 29152, 29140, 29159, 29177,
       29213, 29224, 28780, 28952, 29030, 29113, 25150, 25149, 25155, 25160, 25161, 31035, 31040, 31046,
       31049, 31067, 31068, 31059, 31066, 31074, 31063, 31072, 31087, 31079, 31098, 31109, 31114, 31130,
       31143, 31155, 24529, 24528, 38814, 38815, 38817, 38818, 38820, 38821, 38822, 38823, 38824, 38825,
       38826, 38828, 38830, 38832, 38833, 38835, 38837, 38838, 38839, 38840, 38841, 38842, 38843, 38844,
       38845, 38846, 38847, 38848, 38849, 38850, 38851, 38852, 38853, 38854, 38855, 38856, 38857, 38858,
       38859, 38860, 38861, 38862, 38863, 38864, 38865, 38866, 38867, 38868, 38869, 38870, 38871, 38872,
       38873, 38874, 38875, 38876, 38877, 38878, 38879, 38880, 38881, 38882, 38883, 38884, 38885, 38888,
       38894, 38895, 38896, 38897, 38898, 38900, 38903, 38904, 38905, 38906, 38907, 38908, 38909, 38910,
       38911, 38912, 38913, 38914, 38915, 38916, 38917, 38918, 38919, 38920, 38921, 38922, 38923, 38924,
       38925, 38926, 24636, 24669, 24666, 24679, 24641, 24665, 24675, 24747, 24838, 24845, 24925, 25001,
       24989, 25035, 25041, 25094, 32896, 32895, 27795, 27894, 28156, 30710, 30712, 30720, 30729, 30743,
       30744, 30737, 26027, 30765, 30748, 30749, 30777, 30778, 30779, 30751, 30780, 30757, 30764, 30755,
       30761, 30798, 30829, 30806, 30807, 30758, 30800, 30791, 30796, 30826, 30875, 30867, 30874, 30855,
       30876, 30881, 30883, 30898, 30905, 30885, 30932, 30937, 30921, 30956, 30962, 30981, 30964, 30995,
       31012, 31006, 31028, 40859, 40697, 40699, 40700, 30449, 30468, 30477, 30457, 30471, 30472, 30490,
       30498, 30489, 30509, 30502, 30517, 30520, 30544, 30545, 30535, 30531, 30554, 30568, 38927, 38928,
       38929, 38930, 38931, 38932, 38933, 38934, 38935, 38936, 38937, 38938, 38939, 38940, 38941, 38942,
       38943, 38944, 38945, 38946, 38947, 38948, 38949, 38950, 38951, 38952, 38953, 38954, 38955, 38956,
       38957, 38958, 38959, 38960, 38961, 38962, 38963, 38964, 38965, 38966, 38967, 38968, 38969, 38970,
       38971, 38972, 38973, 38974, 38975, 38976, 38977, 38978, 38979, 38980, 38981, 38982, 38983, 38984,
       38985, 38986, 38987, 38988, 38989, 38990, 38991, 38992, 38993, 38994, 38995, 38996, 38997, 38998,
       38999, 39000, 39001, 39002, 39003, 39004, 39005, 39006, 39007, 39008, 39009, 39010, 39011, 39012,
       39013, 39014, 39015, 39016, 39017, 39018, 39019, 39020, 39021, 39022, 30562, 30565, 30591, 30605,
       30589, 30592, 30604, 30609, 30623, 30624, 30640, 30645, 30653, 30010, 30016, 30030, 30027, 30024,
       30043, 30066, 30073, 30083, 32600, 32609, 32607, 35400, 32616, 32628, 32625, 32633, 32641, 32638,
       30413, 30437, 34866, 38021, 38022, 38023, 38027, 38026, 38028, 38029, 38031, 38032, 38036, 38039,
       38037, 38042, 38043, 38044, 38051, 38052, 38059, 38058, 38061, 38060, 38063, 38064, 38066, 38068,
       38070, 38071, 38072, 38073, 38074, 38076, 38077, 38079, 38084, 38088, 38089, 38090, 38091, 38092,
       38093, 38094, 38096, 38097, 38098, 38101, 38102, 38103, 38105, 38104, 38107, 38110, 38111, 38112,
       38114, 38116, 38117, 38119, 38120, 38122, 39023, 39024, 39025, 39026, 39027, 39028, 39051, 39054,
       39058, 39061, 39065, 39075, 39080, 39081, 39082, 39083, 39084, 39085, 39086, 39087, 39088, 39089,
       39090, 39091, 39092, 39093, 39094, 39095, 39096, 39097, 39098, 39099, 39100, 39101, 39102, 39103,
       39104, 39105, 39106, 39107, 39108, 39109, 39110, 39111, 39112, 39113, 39114, 39115, 39116, 39117,
       39119, 39120, 39124, 39126, 39127, 39131, 39132, 39133, 39136, 39137, 39138, 39139, 39140, 39141,
       39142, 39145, 39146, 39147, 39148, 39149, 39150, 39151, 39152, 39153, 39154, 39155, 39156, 39157,
       39158, 39159, 39160, 39161, 39162, 39163, 39164, 39165, 39166, 39167, 39168, 39169, 39170, 39171,
       39172, 39173, 39174, 39175, 38121, 38123, 38126, 38127, 38131, 38132, 38133, 38135, 38137, 38140,
       38141, 38143, 38147, 38146, 38150, 38151, 38153, 38154, 38157, 38158, 38159, 38162, 38163, 38164,
       38165, 38166, 38168, 38171, 38173, 38174, 38175, 38178, 38186, 38187, 38185, 38188, 38193, 38194,
       38196, 38198, 38199, 38200, 38204, 38206, 38207, 38210, 38197, 38212, 38213, 38214, 38217, 38220,
       38222, 38223, 38226, 38227, 38228, 38230, 38231, 38232, 38233, 38235, 38238, 38239, 38237, 38241,
       38242, 38244, 38245, 38246, 38247, 38248, 38249, 38250, 38251, 38252, 38255, 38257, 38258, 38259,
       38202, 30695, 30700, 38601, 31189, 31213, 31203, 31211, 31238, 23879, 31235, 31234, 31262, 31252,
       39176, 39177, 39178, 39179, 39180, 39182, 39183, 39185, 39186, 39187, 39188, 39189, 39190, 39191,
       39192, 39193, 39194, 39195, 39196, 39197, 39198, 39199, 39200, 39201, 39202, 39203, 39204, 39205,
       39206, 39207, 39208, 39209, 39210, 39211, 39212, 39213, 39215, 39216, 39217, 39218, 39219, 39220,
       39221, 39222, 39223, 39224, 39225, 39226, 39227, 39228, 39229, 39230, 39231, 39232, 39233, 39234,
       39235, 39236, 39237, 39238, 39239, 39240, 39241, 39242, 39243, 39244, 39245, 39246, 39247, 39248,
       39249, 39250, 39251, 39254, 39255, 39256, 39257, 39258, 39259, 39260, 39261, 39262, 39263, 39264,
       39265, 39266, 39268, 39270, 39283, 39288, 39289, 39291, 39294, 39298, 39299, 39305, 31289, 31287,
       31313, 40655, 39333, 31344, 30344, 30350, 30355, 30361, 30372, 29918, 29920, 29996, 40480, 40482,
       40488, 40489, 40490, 40491, 40492, 40498, 40497, 40502, 40504, 40503, 40505, 40506, 40510, 40513,
       40514, 40516, 40518, 40519, 40520, 40521, 40523, 40524, 40526, 40529, 40533, 40535, 40538, 40539,
       40540, 40542, 40547, 40550, 40551, 40552, 40553, 40554, 40555, 40556, 40561, 40557, 40563, 30098,
       30100, 30102, 30112, 30109, 30124, 30115, 30131, 30132, 30136, 30148, 30129, 30128, 30147, 30146,
       30166, 30157, 30179, 30184, 30182, 30180, 30187, 30183, 30211, 30193, 30204, 30207, 30224, 30208,
       30213, 30220, 30231, 30218, 30245, 30232, 30229, 30233, 39308, 39310, 39322, 39323, 39324, 39325,
       39326, 39327, 39328, 39329, 39330, 39331, 39332, 39334, 39335, 39337, 39338, 39339, 39340, 39341,
       39342, 39343, 39344, 39345, 39346, 39347, 39348, 39349, 39350, 39351, 39352, 39353, 39354, 39355,
       39356, 39357, 39358, 39359, 39360, 39361, 39362, 39363, 39364, 39365, 39366, 39367, 39368, 39369,
       39370, 39371, 39372, 39373, 39374, 39375, 39376, 39377, 39378, 39379, 39380, 39381, 39382, 39383,
       39384, 39385, 39386, 39387, 39388, 39389, 39390, 39391, 39392, 39393, 39394, 39395, 39396, 39397,
       39398, 39399, 39400, 39401, 39402, 39403, 39404, 39405, 39406, 39407, 39408, 39409, 39410, 39411,
       39412, 39413, 39414, 39415, 39416, 39417, 30235, 30268, 30242, 30240, 30272, 30253, 30256, 30271,
       30261, 30275, 30270, 30259, 30285, 30302, 30292, 30300, 30294, 30315, 30319, 32714, 31462, 31352,
       31353, 31360, 31366, 31368, 31381, 31398, 31392, 31404, 31400, 31405, 31411, 34916, 34921, 34930,
       34941, 34943, 34946, 34978, 35014, 34999, 35004, 35017, 35042, 35022, 35043, 35045, 35057, 35098,
       35068, 35048, 35070, 35056, 35105, 35097, 35091, 35099, 35082, 35124, 35115, 35126, 35137, 35174,
       35195, 30091, 32997, 30386, 30388, 30684, 32786, 32788, 32790, 32796, 32800, 32802, 32805, 32806,
       32807, 32809, 32808, 32817, 32779, 32821, 32835, 32838, 32845, 32850, 32873, 32881, 35203, 39032,
       39040, 39043, 39418, 39419, 39420, 39421, 39422, 39423, 39424, 39425, 39426, 39427, 39428, 39429,
       39430, 39431, 39432, 39433, 39434, 39435, 39436, 39437, 39438, 39439, 39440, 39441, 39442, 39443,
       39444, 39445, 39446, 39447, 39448, 39449, 39450, 39451, 39452, 39453, 39454, 39455, 39456, 39457,
       39458, 39459, 39460, 39461, 39462, 39463, 39464, 39465, 39466, 39467, 39468, 39469, 39470, 39471,
       39472, 39473, 39474, 39475, 39476, 39477, 39478, 39479, 39480, 39481, 39482, 39483, 39484, 39485,
       39486, 39487, 39488, 39489, 39490, 39491, 39492, 39493, 39494, 39495, 39496, 39497, 39498, 39499,
       39500, 39501, 39502, 39503, 39504, 39505, 39506, 39507, 39508, 39509, 39510, 39511, 39512, 39513,
       39049, 39052, 39053, 39055, 39060, 39066, 39067, 39070, 39071, 39073, 39074, 39077, 39078, 34381,
       34388, 34412, 34414, 34431, 34426, 34428, 34427, 34472, 34445, 34443, 34476, 34461, 34471, 34467,
       34474, 34451, 34473, 34486, 34500, 34485, 34510, 34480, 34490, 34481, 34479, 34505, 34511, 34484,
       34537, 34545, 34546, 34541, 34547, 34512, 34579, 34526, 34548, 34527, 34520, 34513, 34563, 34567,
       34552, 34568, 34570, 34573, 34569, 34595, 34619, 34590, 34597, 34606, 34586, 34622, 34632, 34612,
       34609, 34601, 34615, 34623, 34690, 34594, 34685, 34686, 34683, 34656, 34672, 34636, 34670, 34699,
       34643, 34659, 34684, 34660, 34649, 34661, 34707, 34735, 34728, 34770, 39514, 39515, 39516, 39517,
       39518, 39519, 39520, 39521, 39522, 39523, 39524, 39525, 39526, 39527, 39528, 39529, 39530, 39531,
       39538, 39555, 39561, 39565, 39566, 39572, 39573, 39577, 39590, 39593, 39594, 39595, 39596, 39597,
       39598, 39599, 39602, 39603, 39604, 39605, 39609, 39611, 39613, 39614, 39615, 39619, 39620, 39622,
       39623, 39624, 39625, 39626, 39629, 39630, 39631, 39632, 39634, 39636, 39637, 39638, 39639, 39641,
       39642, 39643, 39644, 39645, 39646, 39648, 39650, 39651, 39652, 39653, 39655, 39656, 39657, 39658,
       39660, 39662, 39664, 39665, 39666, 39667, 39668, 39669, 39670, 39671, 39672, 39674, 39676, 39677,
       39678, 39679, 39680, 39681, 39682, 39684, 39685, 39686, 34758, 34696, 34693, 34733, 34711, 34691,
       34731, 34789, 34732, 34741, 34739, 34763, 34771, 34749, 34769, 34752, 34762, 34779, 34794, 34784,
       34798, 34838, 34835, 34814, 34826, 34843, 34849, 34873, 34876, 32566, 32578, 32580, 32581, 33296,
       31482, 31485, 31496, 31491, 31492, 31509, 31498, 31531, 31503, 31559, 31544, 31530, 31513, 31534,
       31537, 31520, 31525, 31524, 31539, 31550, 31518, 31576, 31578, 31557, 31605, 31564, 31581, 31584,
       31598, 31611, 31586, 31602, 31601, 31632, 31654, 31655, 31672, 31660, 31645, 31656, 31621, 31658,
       31644, 31650, 31659, 31668, 31697, 31681, 31692, 31709, 31706, 31717, 31718, 31722, 31756, 31742,
       31740, 31759, 31766, 31755, 39687, 39689, 39690, 39691, 39692, 39693, 39694, 39696, 39697, 39698,
       39700, 39701, 39702, 39703, 39704, 39705, 39706, 39707, 39708, 39709, 39710, 39712, 39713, 39714,
       39716, 39717, 39718, 39719, 39720, 39721, 39722, 39723, 39724, 39725, 39726, 39728, 39729, 39731,
       39732, 39733, 39734, 39735, 39736, 39737, 39738, 39741, 39742, 39743, 39744, 39750, 39754, 39755,
       39756, 39758, 39760, 39762, 39763, 39765, 39766, 39767, 39768, 39769, 39770, 39771, 39772, 39773,
       39774, 39775, 39776, 39777, 39778, 39779, 39780, 39781, 39782, 39783, 39784, 39785, 39786, 39787,
       39788, 39789, 39790, 39791, 39792, 39793, 39794, 39795, 39796, 39797, 39798, 39799, 39800, 39801,
       39802, 39803, 31775, 31786, 31782, 31800, 31809, 31808, 33278, 33281, 33282, 33284, 33260, 34884,
       33313, 33314, 33315, 33325, 33327, 33320, 33323, 33336, 33339, 33331, 33332, 33342, 33348, 33353,
       33355, 33359, 33370, 33375, 33384, 34942, 34949, 34952, 35032, 35039, 35166, 32669, 32671, 32679,
       32687, 32688, 32690, 31868, 25929, 31889, 31901, 31900, 31902, 31906, 31922, 31932, 31933, 31937,
       31943, 31948, 31949, 31944, 31941, 31959, 31976, 33390, 26280, 32703, 32718, 32725, 32741, 32737,
       32742, 32745, 32750, 32755, 31992, 32119, 32166, 32174, 32327, 32411, 40632, 40628, 36211, 36228,
       36244, 36241, 36273, 36199, 36205, 35911, 35913, 37194, 37200, 37198, 37199, 37220, 39804, 39805,
       39806, 39807, 39808, 39809, 39810, 39811, 39812, 39813, 39814, 39815, 39816, 39817, 39818, 39819,
       39820, 39821, 39822, 39823, 39824, 39825, 39826, 39827, 39828, 39829, 39830, 39831, 39832, 39833,
       39834, 39835, 39836, 39837, 39838, 39839, 39840, 39841, 39842, 39843, 39844, 39845, 39846, 39847,
       39848, 39849, 39850, 39851, 39852, 39853, 39854, 39855, 39856, 39857, 39858, 39859, 39860, 39861,
       39862, 39863, 39864, 39865, 39866, 39867, 39868, 39869, 39870, 39871, 39872, 39873, 39874, 39875,
       39876, 39877, 39878, 39879, 39880, 39881, 39882, 39883, 39884, 39885, 39886, 39887, 39888, 39889,
       39890, 39891, 39892, 39893, 39894, 39895, 39896, 39897, 39898, 39899, 37218, 37217, 37232, 37225,
       37231, 37245, 37246, 37234, 37236, 37241, 37260, 37253, 37264, 37261, 37265, 37282, 37283, 37290,
       37293, 37294, 37295, 37301, 37300, 37306, 35925, 40574, 36280, 36331, 36357, 36441, 36457, 36277,
       36287, 36284, 36282, 36292, 36310, 36311, 36314, 36318, 36302, 36303, 36315, 36294, 36332, 36343,
       36344, 36323, 36345, 36347, 36324, 36361, 36349, 36372, 36381, 36383, 36396, 36398, 36387, 36399,
       36410, 36416, 36409, 36405, 36413, 36401, 36425, 36417, 36418, 36433, 36434, 36426, 36464, 36470,
       36476, 36463, 36468, 36485, 36495, 36500, 36496, 36508, 36510, 35960, 35970, 35978, 35973, 35992,
       35988, 26011, 35286, 35294, 35290, 35292, 39900, 39901, 39902, 39903, 39904, 39905, 39906, 39907,
       39908, 39909, 39910, 39911, 39912, 39913, 39914, 39915, 39916, 39917, 39918, 39919, 39920, 39921,
       39922, 39923, 39924, 39925, 39926, 39927, 39928, 39929, 39930, 39931, 39932, 39933, 39934, 39935,
       39936, 39937, 39938, 39939, 39940, 39941, 39942, 39943, 39944, 39945, 39946, 39947, 39948, 39949,
       39950, 39951, 39952, 39953, 39954, 39955, 39956, 39957, 39958, 39959, 39960, 39961, 39962, 39963,
       39964, 39965, 39966, 39967, 39968, 39969, 39970, 39971, 39972, 39973, 39974, 39975, 39976, 39977,
       39978, 39979, 39980, 39981, 39982, 39983, 39984, 39985, 39986, 39987, 39988, 39989, 39990, 39991,
       39992, 39993, 39994, 39995, 35301, 35307, 35311, 35390, 35622, 38739, 38633, 38643, 38639, 38662,
       38657, 38664, 38671, 38670, 38698, 38701, 38704, 38718, 40832, 40835, 40837, 40838, 40839, 40840,
       40841, 40842, 40844, 40702, 40715, 40717, 38585, 38588, 38589, 38606, 38610, 30655, 38624, 37518,
       37550, 37576, 37694, 37738, 37834, 37775, 37950, 37995, 40063, 40066, 40069, 40070, 40071, 40072,
       31267, 40075, 40078, 40080, 40081, 40082, 40084, 40085, 40090, 40091, 40094, 40095, 40096, 40097,
       40098, 40099, 40101, 40102, 40103, 40104, 40105, 40107, 40109, 40110, 40112, 40113, 40114, 40115,
       40116, 40117, 40118, 40119, 40122, 40123, 40124, 40125, 40132, 40133, 40134, 40135, 40138, 40139,
       39996, 39997, 39998, 39999, 40000, 40001, 40002, 40003, 40004, 40005, 40006, 40007, 40008, 40009,
       40010, 40011, 40012, 40013, 40014, 40015, 40016, 40017, 40018, 40019, 40020, 40021, 40022, 40023,
       40024, 40025, 40026, 40027, 40028, 40029, 40030, 40031, 40032, 40033, 40034, 40035, 40036, 40037,
       40038, 40039, 40040, 40041, 40042, 40043, 40044, 40045, 40046, 40047, 40048, 40049, 40050, 40051,
       40052, 40053, 40054, 40055, 40056, 40057, 40058, 40059, 40061, 40062, 40064, 40067, 40068, 40073,
       40074, 40076, 40079, 40083, 40086, 40087, 40088, 40089, 40093, 40106, 40108, 40111, 40121, 40126,
       40127, 40128, 40129, 40130, 40136, 40137, 40145, 40146, 40154, 40155, 40160, 40161, 40140, 40141,
       40142, 40143, 40144, 40147, 40148, 40149, 40151, 40152, 40153, 40156, 40157, 40159, 40162, 38780,
       38789, 38801, 38802, 38804, 38831, 38827, 38819, 38834, 38836, 39601, 39600, 39607, 40536, 39606,
       39610, 39612, 39617, 39616, 39621, 39618, 39627, 39628, 39633, 39749, 39747, 39751, 39753, 39752,
       39757, 39761, 39144, 39181, 39214, 39253, 39252, 39647, 39649, 39654, 39663, 39659, 39675, 39661,
       39673, 39688, 39695, 39699, 39711, 39715, 40637, 40638, 32315, 40578, 40583, 40584, 40587, 40594,
       37846, 40605, 40607, 40667, 40668, 40669, 40672, 40671, 40674, 40681, 40679, 40677, 40682, 40687,
       40738, 40748, 40751, 40761, 40759, 40765, 40766, 40772, 40163, 40164, 40165, 40166, 40167, 40168,
       40169, 40170, 40171, 40172, 40173, 40174, 40175, 40176, 40177, 40178, 40179, 40180, 40181, 40182,
       40183, 40184, 40185, 40186, 40187, 40188, 40189, 40190, 40191, 40192, 40193, 40194, 40195, 40196,
       40197, 40198, 40199, 40200, 40201, 40202, 40203, 40204, 40205, 40206, 40207, 40208, 40209, 40210,
       40211, 40212, 40213, 40214, 40215, 40216, 40217, 40218, 40219, 40220, 40221, 40222, 40223, 40224,
       40225, 40226, 40227, 40228, 40229, 40230, 40231, 40232, 40233, 40234, 40235, 40236, 40237, 40238,
       40239, 40240, 40241, 40242, 40243, 40244, 40245, 40246, 40247, 40248, 40249, 40250, 40251, 40252,
       40253, 40254, 40255, 40256, 40257, 40258, 57908, 57909, 57910, 57911, 57912, 57913, 57914, 57915,
       57916, 57917, 57918, 57919, 57920, 57921, 57922, 57923, 57924, 57925, 57926, 57927, 57928, 57929,
       57930, 57931, 57932, 57933, 57934, 57935, 57936, 57937, 57938, 57939, 57940, 57941, 57942, 57943,
       57944, 57945, 57946, 57947, 57948, 57949, 57950, 57951, 57952, 57953, 57954, 57955, 57956, 57957,
       57958, 57959, 57960, 57961, 57962, 57963, 57964, 57965, 57966, 57967, 57968, 57969, 57970, 57971,
       57972, 57973, 57974, 57975, 57976, 57977, 57978, 57979, 57980, 57981, 57982, 57983, 57984, 57985,
       57986, 57987, 57988, 57989, 57990, 57991, 57992, 57993, 57994, 57995, 57996, 57997, 57998, 57999,
       58000, 58001, 40259, 40260, 40261, 40262, 40263, 40264, 40265, 40266, 40267, 40268, 40269, 40270,
       40271, 40272, 40273, 40274, 40275, 40276, 40277, 40278, 40279, 40280, 40281, 40282, 40283, 40284,
       40285, 40286, 40287, 40288, 40289, 40290, 40291, 40292, 40293, 40294, 40295, 40296, 40297, 40298,
       40299, 40300, 40301, 40302, 40303, 40304, 40305, 40306, 40307, 40308, 40309, 40310, 40311, 40312,
       40313, 40314, 40315, 40316, 40317, 40318, 40319, 40320, 40321, 40322, 40323, 40324, 40325, 40326,
       40327, 40328, 40329, 40330, 40331, 40332, 40333, 40334, 40335, 40336, 40337, 40338, 40339, 40340,
       40341, 40342, 40343, 40344, 40345, 40346, 40347, 40348, 40349, 40350, 40351, 40352, 40353, 40354,
       58002, 58003, 58004, 58005, 58006, 58007, 58008, 58009, 58010, 58011, 58012, 58013, 58014, 58015,
       58016, 58017, 58018, 58019, 58020, 58021, 58022, 58023, 58024, 58025, 58026, 58027, 58028, 58029,
       58030, 58031, 58032, 58033, 58034, 58035, 58036, 58037, 58038, 58039, 58040, 58041, 58042, 58043,
       58044, 58045, 58046, 58047, 58048, 58049, 58050, 58051, 58052, 58053, 58054, 58055, 58056, 58057,
       58058, 58059, 58060, 58061, 58062, 58063, 58064, 58065, 58066, 58067, 58068, 58069, 58070, 58071,
       58072, 58073, 58074, 58075, 58076, 58077, 58078, 58079, 58080, 58081, 58082, 58083, 58084, 58085,
       58086, 58087, 58088, 58089, 58090, 58091, 58092, 58093, 58094, 58095, 40355, 40356, 40357, 40358,
       40359, 40360, 40361, 40362, 40363, 40364, 40365, 40366, 40367, 40368, 40369, 40370, 40371, 40372,
       40373, 40374, 40375, 40376, 40377, 40378, 40379, 40380, 40381, 40382, 40383, 40384, 40385, 40386,
       40387, 40388, 40389, 40390, 40391, 40392, 40393, 40394, 40395, 40396, 40397, 40398, 40399, 40400,
       40401, 40402, 40403, 40404, 40405, 40406, 40407, 40408, 40409, 40410, 40411, 40412, 40413, 40414,
       40415, 40416, 40417, 40418, 40419, 40420, 40421, 40422, 40423, 40424, 40425, 40426, 40427, 40428,
       40429, 40430, 40431, 40432, 40433, 40434, 40435, 40436, 40437, 40438, 40439, 40440, 40441, 40442,
       40443, 40444, 40445, 40446, 40447, 40448, 40449, 40450, 58096, 58097, 58098, 58099, 58100, 58101,
       58102, 58103, 58104, 58105, 58106, 58107, 58108, 58109, 58110, 58111, 58112, 58113, 58114, 58115,
       58116, 58117, 58118, 58119, 58120, 58121, 58122, 58123, 58124, 58125, 58126, 58127, 58128, 58129,
       58130, 58131, 58132, 58133, 58134, 58135, 58136, 58137, 58138, 58139, 58140, 58141, 58142, 58143,
       58144, 58145, 58146, 58147, 58148, 58149, 58150, 58151, 58152, 58153, 58154, 58155, 58156, 58157,
       58158, 58159, 58160, 58161, 58162, 58163, 58164, 58165, 58166, 58167, 58168, 58169, 58170, 58171,
       58172, 58173, 58174, 58175, 58176, 58177, 58178, 58179, 58180, 58181, 58182, 58183, 58184, 58185,
       58186, 58187, 58188, 58189, 40451, 40452, 40453, 40454, 40455, 40456, 40457, 40458, 40459, 40460,
       40461, 40462, 40463, 40464, 40465, 40466, 40467, 40468, 40469, 40470, 40471, 40472, 40473, 40474,
       40475, 40476, 40477, 40478, 40484, 40487, 40494, 40496, 40500, 40507, 40508, 40512, 40525, 40528,
       40530, 40531, 40532, 40534, 40537, 40541, 40543, 40544, 40545, 40546, 40549, 40558, 40559, 40562,
       40564, 40565, 40566, 40567, 40568, 40569, 40570, 40571, 40572, 40573, 40576, 40577, 40579, 40580,
       40581, 40582, 40585, 40586, 40588, 40589, 40590, 40591, 40592, 40593, 40596, 40597, 40598, 40599,
       40600, 40601, 40602, 40603, 40604, 40606, 40608, 40609, 40610, 40611, 40612, 40613, 40615, 40616,
       40617, 40618, 58190, 58191, 58192, 58193, 58194, 58195, 58196, 58197, 58198, 58199, 58200, 58201,
       58202, 58203, 58204, 58205, 58206, 58207, 58208, 58209, 58210, 58211, 58212, 58213, 58214, 58215,
       58216, 58217, 58218, 58219, 58220, 58221, 58222, 58223, 58224, 58225, 58226, 58227, 58228, 58229,
       58230, 58231, 58232, 58233, 58234, 58235, 58236, 58237, 58238, 58239, 58240, 58241, 58242, 58243,
       58244, 58245, 58246, 58247, 58248, 58249, 58250, 58251, 58252, 58253, 58254, 58255, 58256, 58257,
       58258, 58259, 58260, 58261, 58262, 58263, 58264, 58265, 58266, 58267, 58268, 58269, 58270, 58271,
       58272, 58273, 58274, 58275, 58276, 58277, 58278, 58279, 58280, 58281, 58282, 58283, 40619, 40620,
       40621, 40622, 40623, 40624, 40625, 40626, 40627, 40629, 40630, 40631, 40633, 40634, 40636, 40639,
       40640, 40641, 40642, 40643, 40645, 40646, 40647, 40648, 40650, 40651, 40652, 40656, 40658, 40659,
       40661, 40662, 40663, 40665, 40666, 40670, 40673, 40675, 40676, 40678, 40680, 40683, 40684, 40685,
       40686, 40688, 40689, 40690, 40691, 40692, 40693, 40694, 40695, 40696, 40698, 40701, 40703, 40704,
       40705, 40706, 40707, 40708, 40709, 40710, 40711, 40712, 40713, 40714, 40716, 40719, 40721, 40722,
       40724, 40725, 40726, 40728, 40730, 40731, 40732, 40733, 40734, 40735, 40737, 40739, 40740, 40741,
       40742, 40743, 40744, 40745, 40746, 40747, 40749, 40750, 40752, 40753, 58284, 58285, 58286, 58287,
       58288, 58289, 58290, 58291, 58292, 58293, 58294, 58295, 58296, 58297, 58298, 58299, 58300, 58301,
       58302, 58303, 58304, 58305, 58306, 58307, 58308, 58309, 58310, 58311, 58312, 58313, 58314, 58315,
       58316, 58317, 58318, 58319, 58320, 58321, 58322, 58323, 58324, 58325, 58326, 58327, 58328, 58329,
       58330, 58331, 58332, 58333, 58334, 58335, 58336, 58337, 58338, 58339, 58340, 58341, 58342, 58343,
       58344, 58345, 58346, 58347, 58348, 58349, 58350, 58351, 58352, 58353, 58354, 58355, 58356, 58357,
       58358, 58359, 58360, 58361, 58362, 58363, 58364, 58365, 58366, 58367, 58368, 58369, 58370, 58371,
       58372, 58373, 58374, 58375, 58376, 58377, 40754, 40755, 40756, 40757, 40758, 40760, 40762, 40764,
       40767, 40768, 40769, 40770, 40771, 40773, 40774, 40775, 40776, 40777, 40778, 40779, 40780, 40781,
       40782, 40783, 40786, 40787, 40788, 40789, 40790, 40791, 40792, 40793, 40794, 40795, 40796, 40797,
       40798, 40799, 40800, 40801, 40802, 40803, 40804, 40805, 40806, 40807, 40808, 40809, 40810, 40811,
       40812, 40813, 40814, 40815, 40816, 40817, 40818, 40819, 40820, 40821, 40822, 40823, 40824, 40825,
       40826, 40827, 40828, 40829, 40830, 40833, 40834, 40845, 40846, 40847, 40848, 40849, 40850, 40851,
       40852, 40853, 40854, 40855, 40856, 40860, 40861, 40862, 40865, 40866, 40867, 40868, 40869, 63788,
       63865, 63893, 63975, 63985, 58378, 58379, 58380, 58381, 58382, 58383, 58384, 58385, 58386, 58387,
       58388, 58389, 58390, 58391, 58392, 58393, 58394, 58395, 58396, 58397, 58398, 58399, 58400, 58401,
       58402, 58403, 58404, 58405, 58406, 58407, 58408, 58409, 58410, 58411, 58412, 58413, 58414, 58415,
       58416, 58417, 58418, 58419, 58420, 58421, 58422, 58423, 58424, 58425, 58426, 58427, 58428, 58429,
       58430, 58431, 58432, 58433, 58434, 58435, 58436, 58437, 58438, 58439, 58440, 58441, 58442, 58443,
       58444, 58445, 58446, 58447, 58448, 58449, 58450, 58451, 58452, 58453, 58454, 58455, 58456, 58457,
       58458, 58459, 58460, 58461, 58462, 58463, 58464, 58465, 58466, 58467, 58468, 58469, 58470, 58471,
       64012, 64013, 64014, 64015, 64017, 64019, 64020, 64024, 64031, 64032, 64033, 64035, 64036, 64039,
       64040, 64041, 11905, 59414, 59415, 59416, 11908, 13427, 13383, 11912, 11915, 59422, 13726, 13850,
       13838, 11916, 11927, 14702, 14616, 59430, 14799, 14815, 14963, 14800, 59435, 59436, 15182, 15470,
       15584, 11943, 59441, 59442, 11946, 16470, 16735, 11950, 17207, 11955, 11958, 11959, 59451, 17329,
       17324, 11963, 17373, 17622, 18017, 17996, 59459, 18211, 18217, 18300, 18317, 11978, 18759, 18810,
       18813, 18818, 18819, 18821, 18822, 18847, 18843, 18871, 18870, 59476, 59477, 19619, 19615, 19616,
       19617, 19575, 19618, 19731, 19732, 19733, 19734, 19735, 19736, 19737, 19886, 59492, 58472, 58473,
       58474, 58475, 58476, 58477, 58478, 58479, 58480, 58481, 58482, 58483, 58484, 58485, 58486, 58487,
       58488, 58489, 58490, 58491, 58492, 58493, 58494, 58495, 58496, 58497, 58498, 58499, 58500, 58501,
       58502, 58503, 58504, 58505, 58506, 58507, 58508, 58509, 58510, 58511, 58512, 58513, 58514, 58515,
       58516, 58517, 58518, 58519, 58520, 58521, 58522, 58523, 58524, 58525, 58526, 58527, 58528, 58529,
       58530, 58531, 58532, 58533, 58534, 58535, 58536, 58537, 58538, 58539, 58540, 58541, 58542, 58543,
       58544, 58545, 58546, 58547, 58548, 58549, 58550, 58551, 58552, 58553, 58554, 58555, 58556, 58557,
       58558, 58559, 58560, 58561, 58562, 58563, 58564, 58565 >>

\* the same in ascending order of the code points: <<code point, place in
\* GbTwoByte>>
GbTwoByteCodes ==
    << <<164, 6248>>, <<167, 6252>>, <<168, 6183>>, <<176, 6243>>, <<177, 6208>>, <<183, 6180>>,
       <<215, 6209>>, <<224, 7510>>, <<225, 7508>>, <<232, 7514>>, <<233, 7512>>, <<234, 7532>>,
       <<236, 7518>>, <<237, 7516>>, <<242, 7522>>, <<243, 7520>>, <<247, 6210>>, <<249, 7526>>,
       <<250, 7524>>, <<252, 7531>>, <<257, 7507>>, <<275, 7511>>, <<283, 7513>>, <<299, 7515>>,
       <<324, 7535>>, <<328, 7536>>, <<333, 7519>>, <<363, 7523>>, <<462, 7509>>, <<464, 7517>>,
       <<466, 7521>>, <<468, 7525>>, <<470, 7527>>, <<472, 7528>>, <<474, 7529>>, <<476, 7530>>,
       <<505, 7537>>, <<593, 7533>>, <<609, 7538>>, <<711, 6182>>, <<713, 6181>>, <<714, 7411>>,
       <<715, 7412>>, <<729, 7413>>, <<913, 7127>>, <<914, 7128>>, <<915, 7129>>, <<916, 7130>>,
       <<917, 7131>>, <<918, 7132>>, <<919, 7133>>, <<920, 7134>>, <<921, 7135>>, <<922, 7136>>,
       <<923, 7137>>, <<924, 7138>>, <<925, 7139>>, <<926, 7140>>, <<927, 7141>>, <<928, 7142>>,
       <<929, 7143>>, <<931, 7144>>, <<932, 7145>>, <<933, 7146>>, <<934, 7147>>, <<935, 7148>>,
       <<936, 7149>>, <<937, 7150>>, <<945, 7159>>, <<946, 7160>>, <<947, 7161>>, <<948, 7162>>,
       <<949, 7163>>, <<950, 7164>>, <<951, 7165>>, <<952, 7166>>, <<953, 7167>>, <<954, 7168>>,
       <<955, 7169>>, <<956, 7170>>, <<957, 7171>>, <<958, 7172>>, <<959, 7173>>, <<960, 7174>>,
       <<961, 7175>>, <<963, 7176>>, <<964, 7177>>, <<965, 7178>>, <<966, 7179>>, <<967, 7180>>,
       <<968, 7181>>, <<969, 7182>>, <<1025, 7323>>, <<1040, 7317>>, <<1041, 7318>>, <<1042, 7319>>,
       <<1043, 7320>>, <<1044, 7321>>, <<1045, 7322>>, <<1046, 7324>>, <<1047, 7325>>, <<1048, 7326>>,
       <<1049, 7327>>, <<1050, 7328>>, <<1051, 7329>>, <<1052, 7330>>, <<1053, 7331>>, <<1054, 7332>>,
       <<1055, 7333>>, <<1056, 7334>>, <<1057, 7335>>, <<1058, 7336>>, <<1059, 7337>>, <<1060, 7338>>,
       <<1061, 7339>>, <<1062, 7340>>, <<1063, 7341>>, <<1064, 7342>>, <<1065, 7343>>, <<1066, 7344>>,
       <<1067, 7345>>, <<1068, 7346>>, <<1069, 7347>>, <<1070, 7348>>, <<1071, 7349>>, <<1072, 7365>>,
       <<1073, 7366>>, <<1074, 7367>>, <<1075, 7368>>, <<1076, 7369>>, <<1077, 7370>>, <<1078, 7372>>,
       <<1079, 7373>>, <<1080, 7374>>, <<1081, 7375>>, <<1082, 7376>>, <<1083, 7377>>, <<1084, 7378>>,
       <<1085, 7379>>, <<1086, 7380>>, <<1087, 7381>>, <<1088, 7382>>, <<1089, 7383>>, <<1090, 7384>>,
       <<1091, 7385>>, <<1092, 7386>>, <<1093, 7387>>, <<1094, 7388>>, <<1095, 7389>>, <<1096, 7390>>,
       <<1097, 7391>>, <<1098, 7392>>, <<1099, 7393>>, <<1100, 7394>>, <<1101, 7395>>, <<1102, 7396>>,
       <<1103, 7397>>, <<1105, 7371>>, <<8208, 7629>>, <<8211, 7414>>, <<8212, 6186>>, <<8213, 7415>>,
       <<8214, 6188>>, <<8216, 6190>>, <<8217, 6191>>, <<8220, 6192>>, <<8221, 6193>>, <<8229, 7416>>,
       <<8230, 6189>>, <<8240, 6251>>, <<8242, 6244>>, <<8243, 6245>>, <<8245, 7417>>, <<8251, 6265>>,
       <<8364, 6433>>, <<8451, 6246>>, <<8453, 7418>>, <<8457, 7419>>, <<8470, 6253>>, <<8481, 7626>>,
       <<8544, 6447>>, <<8545, 6448>>, <<8546, 6449>>, <<8547, 6450>>, <<8548, 6451>>, <<8549, 6452>>,
       <<8550, 6453>>, <<8551, 6454>>, <<8552, 6455>>, <<8553, 6456>>, <<8554, 6457>>, <<8555, 6458>>,
       <<8560, 6367>>, <<8561, 6368>>, <<8562, 6369>>, <<8563, 6370>>, <<8564, 6371>>, <<8565, 6372>>,
       <<8566, 6373>>, <<8567, 6374>>, <<8568, 6375>>, <<8569, 6376>>, <<8592, 6267>>, <<8593, 6268>>,
       <<8594, 6266>>, <<8595, 6269>>, <<8598, 7420>>, <<8599, 7421>>, <<8600, 7422>>, <<8601, 7423>>,
       <<8712, 6218>>, <<8719, 6215>>, <<8721, 6214>>, <<8725, 7424>>, <<8730, 6220>>, <<8733, 6232>>,
       <<8734, 6238>>, <<8735, 7425>>, <<8736, 6223>>, <<8739, 7426>>, <<8741, 6222>>, <<8743, 6212>>,
       <<8744, 6213>>, <<8745, 6217>>, <<8746, 6216>>, <<8747, 6226>>, <<8750, 6227>>, <<8756, 6240>>,
       <<8757, 6239>>, <<8758, 6211>>, <<8759, 6219>>, <<8765, 6231>>, <<8776, 6230>>, <<8780, 6229>>,
       <<8786, 7427>>, <<8800, 6233>>, <<8801, 6228>>, <<8804, 6236>>, <<8805, 6237>>, <<8806, 7428>>,
       <<8807, 7429>>, <<8814, 6234>>, <<8815, 6235>>, <<8853, 7492>>, <<8857, 6225>>, <<8869, 6221>>,
       <<8895, 7430>>, <<8978, 6224>>, <<9312, 6423>>, <<9313, 6424>>, <<9314, 6425>>, <<9315, 6426>>,
       <<9316, 6427>>, <<9317, 6428>>, <<9318, 6429>>, <<9319, 6430>>, <<9320, 6431>>, <<9321, 6432>>,
       <<9332, 6403>>, <<9333, 6404>>, <<9334, 6405>>, <<9335, 6406>>, <<9336, 6407>>, <<9337, 6408>>,
       <<9338, 6409>>, <<9339, 6410>>, <<9340, 6411>>, <<9341, 6412>>, <<9342, 6413>>, <<9343, 6414>>,
       <<9344, 6415>>, <<9345, 6416>>, <<9346, 6417>>, <<9347, 6418>>, <<9348, 6419>>, <<9349, 6420>>,
       <<9350, 6421>>, <<9351, 6422>>, <<9352, 6383>>, <<9353, 6384>>, <<9354, 6385>>, <<9355, 6386>>,
       <<9356, 6387>>, <<9357, 6388>>, <<9358, 6389>>, <<9359, 6390>>, <<9360, 6391>>, <<9361, 6392>>,
       <<9362, 6393>>, <<9363, 6394>>, <<9364, 6395>>, <<9365, 6396>>, <<9366, 6397>>, <<9367, 6398>>,
       <<9368, 6399>>, <<9369, 6400>>, <<9370, 6401>>, <<9371, 6402>>, <<9472, 7700>>, <<9473, 7701>>,
       <<9474, 7702>>, <<9475, 7703>>, <<9476, 7704>>, <<9477, 7705>>, <<9478, 7706>>, <<9479, 7707>>,
       <<9480, 7708>>, <<9481, 7709>>, <<9482, 7710>>, <<9483, 7711>>, <<9484, 7712>>, <<9485, 7713>>,
       <<9486, 7714>>, <<9487, 7715>>, <<9488, 7716>>, <<9489, 7717>>, <<9490, 7718>>, <<9491, 7719>>,
       <<9492, 7720>>, <<9493, 7721>>, <<9494, 7722>>, <<9495, 7723>>, <<9496, 7724>>, <<9497, 7725>>,
       <<9498, 7726>>, <<9499, 7727>>, <<9500, 7728>>, <<9501, 7729>>, <<9502, 7730>>, <<9503, 7731>>,
       <<9504, 7732>>, <<9505, 7733>>, <<9506, 7734>>, <<9507, 7735>>, <<9508, 7736>>, <<9509, 7737>>,
       <<9510, 7738>>, <<9511, 7739>>, <<9512, 7740>>, <<9513, 7741>>, <<9514, 7742>>, <<9515, 7743>>,
       <<9516, 7744>>, <<9517, 7745>>, <<9518, 7746>>, <<9519, 7747>>, <<9520, 7748>>, <<9521, 7749>>,
       <<9522, 7750>>, <<9523, 7751>>, <<9524, 7752>>, <<9525, 7753>>, <<9526, 7754>>, <<9527, 7755>>,
       <<9528, 7756>>, <<9529, 7757>>, <<9530, 7758>>, <<9531, 7759>>, <<9532, 7760>>, <<9533, 7761>>,
       <<9534, 7762>>, <<9535, 7763>>, <<9536, 7764>>, <<9537, 7765>>, <<9538, 7766>>, <<9539, 7767>>,
       <<9540, 7768>>, <<9541, 7769>>, <<9542, 7770>>, <<9543, 7771>>, <<9544, 7772>>, <<9545, 7773>>,
       <<9546, 7774>>, <<9547, 7775>>, <<9552, 7431>>, <<9553, 7432>>, <<9554, 7433>>, <<9555, 7434>>,
       <<9556, 7435>>, <<9557, 7436>>, <<9558, 7437>>, <<9559, 7438>>, <<9560, 7439>>, <<9561, 7440>>,
       <<9562, 7441>>, <<9563, 7442>>, <<9564, 7443>>, <<9565, 7444>>, <<9566, 7445>>, <<9567, 7446>>,
       <<9568, 7447>>, <<9569, 7448>>, <<9570, 7449>>, <<9571, 7450>>, <<9572, 7451>>, <<9573, 7452>>,
       <<9574, 7453>>, <<9575, 7454>>, <<9576, 7455>>, <<9577, 7456>>, <<9578, 7457>>, <<9579, 7458>>,
       <<9580, 7459>>, <<9581, 7460>>, <<9582, 7461>>, <<9583, 7462>>, <<9584, 7463>>, <<9585, 7464>>,
       <<9586, 7465>>, <<9587, 7466>>, <<9601, 7467>>, <<9602, 7468>>, <<9603, 7469>>, <<9604, 7470>>,
       <<9605, 7471>>, <<9606, 7472>>, <<9607, 7473>>, <<9608, 7474>>, <<9609, 7475>>, <<9610, 7476>>,
       <<9611, 7477>>, <<9612, 7478>>, <<9613, 7479>>, <<9614, 7480>>, <<9615, 7481>>, <<9619, 7482>>,
       <<9620, 7483>>, <<9621, 7484>>, <<9632, 6262>>, <<9633, 6261>>, <<9650, 6264>>, <<9651, 6263>>,
       <<9660, 7485>>, <<9661, 7486>>, <<9670, 6260>>, <<9671, 6259>>, <<9675, 6256>>, <<9678, 6258>>,
       <<9679, 6257>>, <<9698, 7487>>, <<9699, 7488>>, <<9700, 7489>>, <<9701, 7490>>, <<9733, 6255>>,
       <<9734, 6254>>, <<9737, 7491>>, <<9792, 6242>>, <<9794, 6241>>, <<11905, 23767>>, <<11908, 23771>>,
       <<11912, 23774>>, <<11915, 23775>>, <<11916, 23780>>, <<11927, 23781>>, <<11943, 23794>>,
       <<11946, 23797>>, <<11950, 23800>>, <<11955, 23802>>, <<11958, 23803>>, <<11959, 23804>>,
       <<11963, 23808>>, <<11978, 23818>>, <<12272, 7674>>, <<12273, 7675>>, <<12274, 7676>>,
       <<12275, 7677>>, <<12276, 7678>>, <<12277, 7679>>, <<12278, 7680>>, <<12279, 7681>>, <<12280, 7682>>,
       <<12281, 7683>>, <<12282, 7684>>, <<12283, 7685>>, <<12288, 6177>>, <<12289, 6178>>, <<12290, 6179>>,
       <<12291, 6184>>, <<12293, 6185>>, <<12294, 7638>>, <<12295, 7686>>, <<12296, 6196>>, <<12297, 6197>>,
       <<12298, 6198>>, <<12299, 6199>>, <<12300, 6200>>, <<12301, 6201>>, <<12302, 6202>>, <<12303, 6203>>,
       <<12304, 6206>>, <<12305, 6207>>, <<12306, 7493>>, <<12307, 6270>>, <<12308, 6194>>, <<12309, 6195>>,
       <<12310, 6204>>, <<12311, 6205>>, <<12317, 7494>>, <<12318, 7495>>, <<12321, 7601>>, <<12322, 7602>>,
       <<12323, 7603>>, <<12324, 7604>>, <<12325, 7605>>, <<12326, 7606>>, <<12327, 7607>>, <<12328, 7608>>,
       <<12329, 7609>>, <<12350, 7673>>, <<12353, 6747>>, <<12354, 6748>>, <<12355, 6749>>, <<12356, 6750>>,
       <<12357, 6751>>, <<12358, 6752>>, <<12359, 6753>>, <<12360, 6754>>, <<12361, 6755>>, <<12362, 6756>>,
       <<12363, 6757>>, <<12364, 6758>>, <<12365, 6759>>, <<12366, 6760>>, <<12367, 6761>>, <<12368, 6762>>,
       <<12369, 6763>>, <<12370, 6764>>, <<12371, 6765>>, <<12372, 6766>>, <<12373, 6767>>, <<12374, 6768>>,
       <<12375, 6769>>, <<12376, 6770>>, <<12377, 6771>>, <<12378, 6772>>, <<12379, 6773>>, <<12380, 6774>>,
       <<12381, 6775>>, <<12382, 6776>>, <<12383, 6777>>, <<12384, 6778>>, <<12385, 6779>>, <<12386, 6780>>,
       <<12387, 6781>>, <<12388, 6782>>, <<12389, 6783>>, <<12390, 6784>>, <<12391, 6785>>, <<12392, 6786>>,
       <<12393, 6787>>, <<12394, 6788>>, <<12395, 6789>>, <<12396, 6790>>, <<12397, 6791>>, <<12398, 6792>>,
       <<12399, 6793>>, <<12400, 6794>>, <<12401, 6795>>, <<12402, 6796>>, <<12403, 6797>>, <<12404, 6798>>,
       <<12405, 6799>>, <<12406, 6800>>, <<12407, 6801>>, <<12408, 6802>>, <<12409, 6803>>, <<12410, 6804>>,
       <<12411, 6805>>, <<12412, 6806>>, <<12413, 6807>>, <<12414, 6808>>, <<12415, 6809>>, <<12416, 6810>>,
       <<12417, 6811>>, <<12418, 6812>>, <<12419, 6813>>, <<12420, 6814>>, <<12421, 6815>>, <<12422, 6816>>,
       <<12423, 6817>>, <<12424, 6818>>, <<12425, 6819>>, <<12426, 6820>>, <<12427, 6821>>, <<12428, 6822>>,
       <<12429, 6823>>, <<12430, 6824>>, <<12431, 6825>>, <<12432, 6826>>, <<12433, 6827>>, <<12434, 6828>>,
       <<12435, 6829>>, <<12443, 7634>>, <<12444, 7635>>, <<12445, 7639>>, <<12446, 7640>>, <<12449, 6937>>,
       <<12450, 6938>>, <<12451, 6939>>, <<12452, 6940>>, <<12453, 6941>>, <<12454, 6942>>, <<12455, 6943>>,
       <<12456, 6944>>, <<12457, 6945>>, <<12458, 6946>>, <<12459, 6947>>, <<12460, 6948>>, <<12461, 6949>>,
       <<12462, 6950>>, <<12463, 6951>>, <<12464, 6952>>, <<12465, 6953>>, <<12466, 6954>>, <<12467, 6955>>,
       <<12468, 6956>>, <<12469, 6957>>, <<12470, 6958>>, <<12471, 6959>>, <<12472, 6960>>, <<12473, 6961>>,
       <<12474, 6962>>, <<12475, 6963>>, <<12476, 6964>>, <<12477, 6965>>, <<12478, 6966>>, <<12479, 6967>>,
       <<12480, 6968>>, <<12481, 6969>>, <<12482, 6970>>, <<12483, 6971>>, <<12484, 6972>>, <<12485, 6973>>,
       <<12486, 6974>>, <<12487, 6975>>, <<12488, 6976>>, <<12489, 6977>>, <<12490, 6978>>, <<12491, 6979>>,
       <<12492, 6980>>, <<12493, 6981>>, <<12494, 6982>>, <<12495, 6983>>, <<12496, 6984>>, <<12497, 6985>>,
       <<12498, 6986>>, <<12499, 6987>>, <<12500, 6988>>, <<12501, 6989>>, <<12502, 6990>>, <<12503, 6991>>,
       <<12504, 6992>>, <<12505, 6993>>, <<12506, 6994>>, <<12507, 6995>>, <<12508, 6996>>, <<12509, 6997>>,
       <<12510, 6998>>, <<12511, 6999>>, <<12512, 7000>>, <<12513, 7001>>, <<12514, 7002>>, <<12515, 7003>>,
       <<12516, 7004>>, <<12517, 7005>>, <<12518, 7006>>, <<12519, 7007>>, <<12520, 7008>>, <<12521, 7009>>,
       <<12522, 7010>>, <<12523, 7011>>, <<12524, 7012>>, <<12525, 7013>>, <<12526, 7014>>, <<12527, 7015>>,
       <<12528, 7016>>, <<12529, 7017>>, <<12530, 7018>>, <<12531, 7019>>, <<12532, 7020>>, <<12533, 7021>>,
       <<12534, 7022>>, <<12540, 7633>>, <<12541, 7636>>, <<12542, 7637>>, <<12549, 7543>>, <<12550, 7544>>,
       <<12551, 7545>>, <<12552, 7546>>, <<12553, 7547>>, <<12554, 7548>>, <<12555, 7549>>, <<12556, 7550>>,
       <<12557, 7551>>, <<12558, 7552>>, <<12559, 7553>>, <<12560, 7554>>, <<12561, 7555>>, <<12562, 7556>>,
       <<12563, 7557>>, <<12564, 7558>>, <<12565, 7559>>, <<12566, 7560>>, <<12567, 7561>>, <<12568, 7562>>,
       <<12569, 7563>>, <<12570, 7564>>, <<12571, 7565>>, <<12572, 7566>>, <<12573, 7567>>, <<12574, 7568>>,
       <<12575, 7569>>, <<12576, 7570>>, <<12577, 7571>>, <<12578, 7572>>, <<12579, 7573>>, <<12580, 7574>>,
       <<12581, 7575>>, <<12582, 7576>>, <<12583, 7577>>, <<12584, 7578>>, <<12585, 7579>>, <<12832, 6435>>,
       <<12833, 6436>>, <<12834, 6437>>, <<12835, 6438>>, <<12836, 6439>>, <<12837, 6440>>, <<12838, 6441>>,
       <<12839, 6442>>, <<12840, 6443>>, <<12841, 6444>>, <<12849, 7627>>, <<12963, 7610>>, <<13198, 7611>>,
       <<13199, 7612>>, <<13212, 7613>>, <<13213, 7614>>, <<13214, 7615>>, <<13217, 7616>>, <<13252, 7617>>,
       <<13262, 7618>>, <<13265, 7619>>, <<13266, 7620>>, <<13269, 7621>>, <<13383, 23773>>,
       <<13427, 23772>>, <<13726, 23777>>, <<13838, 23779>>, <<13850, 23778>>, <<14616, 23783>>,
       <<14702, 23782>>, <<14799, 23785>>, <<14800, 23788>>, <<14815, 23786>>, <<14963, 23787>>,
       <<15182, 23791>>, <<15470, 23792>>, <<15584, 23793>>, <<16470, 23798>>, <<16735, 23799>>,
       <<17207, 23801>>, <<17324, 23807>>, <<17329, 23806>>, <<17373, 23809>>, <<17622, 23810>>,
       <<17996, 23812>>, <<18017, 23811>>, <<18211, 23814>>, <<18217, 23815>>, <<18300, 23816>>,
       <<18317, 23817>>, <<18759, 23819>>, <<18810, 23820>>, <<18813, 23821>>, <<18818, 23822>>,
       <<18819, 23823>>, <<18821, 23824>>, <<18822, 23825>>, <<18843, 23827>>, <<18847, 23826>>,
       <<18870, 23829>>, <<18871, 23828>>, <<19575, 23836>>, <<19615, 23833>>, <<19616, 23834>>,
       <<19617, 23835>>, <<19618, 23837>>, <<19619, 23832>>, <<19731, 23838>>, <<19732, 23839>>,
       <<19733, 23840>>, <<19734, 23841>>, <<19735, 23842>>, <<19736, 23843>>, <<19737, 23844>>,
       <<19886, 23845>>, <<19968, 15513>>, <<19969, 10167>>, <<19970, 1>>, <<19971, 13269>>, <<19972, 2>>,
       <<19973, 3>>, <<19974, 4>>, <<19975, 14618>>, <<19976, 16097>>, <<19977, 13679>>, <<19978, 13823>>,
       <<19979, 14950>>, <<19980, 16628>>, <<19981, 9433>>, <<19982, 15751>>, <<19983, 5>>,
       <<19984, 16630>>, <<19985, 9679>>, <<19986, 6>>, <<19987, 16444>>, <<19988, 13446>>,
       <<19989, 16633>>, <<19990, 13998>>, <<19991, 7>>, <<19992, 13476>>, <<19993, 9307>>,
       <<19994, 15507>>, <<19995, 9838>>, <<19996, 10177>>, <<19997, 14187>>, <<19998, 16635>>,
       <<19999, 8>>, <<20000, 9>>, <<20001, 10>>, <<20002, 10176>>, <<20003, 11>>, <<20004, 12285>>,
       <<20005, 15343>>, <<20006, 12>>, <<20007, 13781>>, <<20008, 16639>>, <<20009, 13>>, <<20010, 10632>>,
       <<20011, 15326>>, <<20012, 18776>>, <<20013, 16294>>, <<20014, 14>>, <<20015, 15>>, <<20016, 10421>>,
       <<20017, 16>>, <<20018, 9800>>, <<20019, 17>>, <<20020, 12313>>, <<20021, 18>>, <<20022, 16654>>,
       <<20023, 19>>, <<20024, 14608>>, <<20025, 9980>>, <<20026, 14736>>, <<20027, 16333>>, <<20028, 20>>,
       <<20029, 12152>>, <<20030, 11743>>, <<20031, 16641>>, <<20032, 21>>, <<20033, 22>>, <<20034, 23>>,
       <<20035, 12869>>, <<20036, 24>>, <<20037, 11721>>, <<20038, 25>>, <<20039, 16643>>, <<20040, 12656>>,
       <<20041, 15555>>, <<20042, 26>>, <<20043, 16260>>, <<20044, 14784>>, <<20045, 16063>>,
       <<20046, 11011>>, <<20047, 10362>>, <<20048, 12120>>, <<20049, 27>>, <<20050, 13231>>,
       <<20051, 13066>>, <<20052, 13435>>, <<20053, 28>>, <<20054, 10788>>, <<20055, 29>>, <<20056, 9639>>,
       <<20057, 15536>>, <<20058, 30>>, <<20059, 31>>, <<20060, 16657>>, <<20061, 11723>>, <<20062, 13288>>,
       <<20063, 15504>>, <<20064, 14932>>, <<20065, 14987>>, <<20066, 32>>, <<20067, 33>>, <<20068, 34>>,
       <<20069, 35>>, <<20070, 14039>>, <<20071, 36>>, <<20072, 37>>, <<20073, 16658>>, <<20074, 38>>,
       <<20075, 39>>, <<20076, 40>>, <<20077, 41>>, <<20078, 42>>, <<20079, 43>>, <<20080, 12528>>,
       <<20081, 12496>>, <<20082, 44>>, <<20083, 13659>>, <<20084, 45>>, <<20085, 46>>, <<20086, 47>>,
       <<20087, 48>>, <<20088, 49>>, <<20089, 50>>, <<20090, 51>>, <<20091, 52>>, <<20092, 53>>,
       <<20093, 54>>, <<20094, 13408>>, <<20095, 55>>, <<20096, 56>>, <<20097, 57>>, <<20098, 58>>,
       <<20099, 59>>, <<20100, 60>>, <<20101, 61>>, <<20102, 12299>>, <<20103, 62>>, <<20104, 15748>>,
       <<20105, 16145>>, <<20106, 63>>, <<20107, 14000>>, <<20108, 10260>>, <<20109, 16627>>,
       <<20110, 15734>>, <<20111, 11963>>, <<20112, 64>>, <<20113, 15904>>, <<20114, 11121>>,
       <<20115, 16659>>, <<20116, 14795>>, <<20117, 11700>>, <<20118, 65>>, <<20119, 66>>, <<20120, 16634>>,
       <<20121, 67>>, <<20122, 15335>>, <<20123, 15115>>, <<20124, 68>>, <<20125, 69>>, <<20126, 70>>,
       <<20127, 16655>>, <<20128, 16895>>, <<20129, 14622>>, <<20130, 11902>>, <<20131, 71>>,
       <<20132, 11523>>, <<20133, 10931>>, <<20134, 15550>>, <<20135, 9496>>, <<20136, 10990>>,
       <<20137, 12848>>, <<20138, 72>>, <<20139, 14993>>, <<20140, 11695>>, <<20141, 14540>>,
       <<20142, 12289>>, <<20143, 73>>, <<20144, 74>>, <<20145, 75>>, <<20146, 13451>>, <<20147, 16897>>,
       <<20148, 76>>, <<20149, 16900>>, <<20150, 77>>, <<20151, 78>>, <<20152, 79>>, <<20153, 80>>,
       <<20154, 13629>>, <<20155, 16699>>, <<20156, 81>>, <<20157, 82>>, <<20158, 83>>, <<20159, 15544>>,
       <<20160, 13984>>, <<20161, 13628>>, <<20162, 16702>>, <<20163, 16700>>, <<20164, 16664>>,
       <<20165, 11582>>, <<20166, 13251>>, <<20167, 9676>>, <<20168, 84>>, <<20169, 16701>>,
       <<20170, 11577>>, <<20171, 11569>>, <<20172, 85>>, <<20173, 13638>>, <<20174, 9837>>, <<20175, 86>>,
       <<20176, 87>>, <<20177, 12502>>, <<20178, 88>>, <<20179, 9460>>, <<20180, 16484>>, <<20181, 14009>>,
       <<20182, 14247>>, <<20183, 16100>>, <<20184, 10568>>, <<20185, 14957>>, <<20186, 89>>, <<20187, 90>>,
       <<20188, 91>>, <<20189, 16874>>, <<20190, 16706>>, <<20191, 13406>>, <<20192, 92>>, <<20193, 16704>>,
       <<20194, 93>>, <<20195, 9876>>, <<20196, 12334>>, <<20197, 15538>>, <<20198, 94>>, <<20199, 95>>,
       <<20200, 16703>>, <<20201, 96>>, <<20202, 15525>>, <<20203, 16705>>, <<20204, 12675>>, <<20205, 97>>,
       <<20206, 98>>, <<20207, 99>>, <<20208, 15382>>, <<20209, 100>>, <<20210, 16303>>, <<20211, 16708>>,
       <<20212, 101>>, <<20213, 16711>>, <<20214, 11400>>, <<20215, 11365>>, <<20216, 102>>, <<20217, 103>>,
       <<20218, 104>>, <<20219, 13632>>, <<20220, 105>>, <<20221, 10417>>, <<20222, 106>>, <<20223, 10390>>,
       <<20224, 107>>, <<20225, 13289>>, <<20226, 108>>, <<20227, 109>>, <<20228, 110>>, <<20229, 111>>,
       <<20230, 112>>, <<20231, 113>>, <<20232, 114>>, <<20233, 16714>>, <<20234, 15519>>, <<20235, 115>>,
       <<20236, 116>>, <<20237, 14799>>, <<20238, 11337>>, <<20239, 10448>>, <<20240, 10361>>,
       <<20241, 15167>>, <<20242, 117>>, <<20243, 118>>, <<20244, 119>>, <<20245, 120>>, <<20246, 121>>,
       <<20247, 16304>>, <<20248, 15713>>, <<20249, 11195>>, <<20250, 11181>>, <<20251, 16707>>,
       <<20252, 122>>, <<20253, 123>>, <<20254, 13777>>, <<20255, 14742>>, <<20256, 9797>>, <<20257, 124>>,
       <<20258, 16709>>, <<20259, 125>>, <<20260, 13819>>, <<20261, 16712>>, <<20262, 12501>>,
       <<20263, 16713>>, <<20264, 126>>, <<20265, 127>>, <<20266, 14743>>, <<20267, 16715>>, <<20268, 128>>,
       <<20269, 129>>, <<20270, 130>>, <<20271, 9420>>, <<20272, 10768>>, <<20273, 131>>, <<20274, 16819>>,
       <<20275, 132>>, <<20276, 9099>>, <<20277, 133>>, <<20278, 12326>>, <<20279, 134>>, <<20280, 13852>>,
       <<20281, 135>>, <<20282, 14193>>, <<20283, 136>>, <<20284, 14194>>, <<20285, 16820>>, <<20286, 137>>,
       <<20287, 138>>, <<20288, 139>>, <<20289, 140>>, <<20290, 141>>, <<20291, 10048>>, <<20292, 142>>,
       <<20293, 143>>, <<20294, 9987>>, <<20295, 144>>, <<20296, 145>>, <<20297, 146>>, <<20298, 147>>,
       <<20299, 148>>, <<20300, 149>>, <<20301, 14753>>, <<20302, 10021>>, <<20303, 16437>>,
       <<20304, 16520>>, <<20305, 15727>>, <<20306, 150>>, <<20307, 14415>>, <<20308, 151>>,
       <<20309, 10972>>, <<20310, 152>>, <<20311, 16818>>, <<20312, 16876>>, <<20313, 15740>>,
       <<20314, 16719>>, <<20315, 10436>>, <<20316, 16523>>, <<20317, 16720>>, <<20318, 16716>>,
       <<20319, 16817>>, <<20320, 12893>>, <<20321, 153>>, <<20322, 154>>, <<20323, 15698>>,
       <<20324, 16710>>, <<20325, 16877>>, <<20326, 155>>, <<20327, 16717>>, <<20328, 156>>,
       <<20329, 13085>>, <<20330, 157>>, <<20331, 158>>, <<20332, 12114>>, <<20333, 159>>, <<20334, 160>>,
       <<20335, 15376>>, <<20336, 9085>>, <<20337, 161>>, <<20338, 162>>, <<20339, 11355>>,
       <<20340, 16822>>, <<20341, 163>>, <<20342, 16821>>, <<20343, 164>>, <<20344, 165>>, <<20345, 166>>,
       <<20346, 167>>, <<20347, 16828>>, <<20348, 16830>>, <<20349, 168>>, <<20350, 16827>>,
       <<20351, 13991>>, <<20352, 169>>, <<20353, 170>>, <<20354, 171>>, <<20355, 16825>>, <<20356, 16268>>,
       <<20357, 172>>, <<20358, 173>>, <<20359, 174>>, <<20360, 9658>>, <<20361, 16824>>, <<20362, 175>>,
       <<20363, 12159>>, <<20364, 176>>, <<20365, 14010>>, <<20366, 177>>, <<20367, 16826>>, <<20368, 178>>,
       <<20369, 16823>>, <<20370, 179>>, <<20371, 180>>, <<20372, 16832>>, <<20373, 181>>, <<20374, 182>>,
       <<20375, 10183>>, <<20376, 183>>, <<20377, 184>>, <<20378, 185>>, <<20379, 10745>>, <<20380, 186>>,
       <<20381, 15518>>, <<20382, 187>>, <<20383, 188>>, <<20384, 14948>>, <<20385, 189>>, <<20386, 190>>,
       <<20387, 12480>>, <<20388, 191>>, <<20389, 11532>>, <<20390, 16132>>, <<20391, 9470>>,
       <<20392, 13436>>, <<20393, 11951>>, <<20394, 16829>>, <<20395, 192>>, <<20396, 16831>>,
       <<20397, 193>>, <<20398, 14800>>, <<20399, 11004>>, <<20400, 194>>, <<20401, 195>>, <<20402, 196>>,
       <<20403, 197>>, <<20404, 198>>, <<20405, 13450>>, <<20406, 199>>, <<20407, 200>>, <<20408, 201>>,
       <<20409, 202>>, <<20410, 203>>, <<20411, 204>>, <<20412, 205>>, <<20413, 206>>, <<20414, 207>>,
       <<20415, 9283>>, <<20416, 208>>, <<20417, 209>>, <<20418, 210>>, <<20419, 9843>>, <<20420, 10243>>,
       <<20421, 16836>>, <<20422, 211>>, <<20423, 212>>, <<20424, 213>>, <<20425, 214>>, <<20426, 11877>>,
       <<20427, 215>>, <<20428, 216>>, <<20429, 217>>, <<20430, 16878>>, <<20431, 13442>>, <<20432, 12160>>,
       <<20433, 16840>>, <<20434, 218>>, <<20435, 219>>, <<20436, 220>>, <<20437, 221>>, <<20438, 222>>,
       <<20439, 14211>>, <<20440, 10449>>, <<20441, 223>>, <<20442, 16837>>, <<20443, 224>>,
       <<20444, 16839>>, <<20445, 9219>>, <<20446, 15741>>, <<20447, 16841>>, <<20448, 225>>,
       <<20449, 15143>>, <<20450, 226>>, <<20451, 16838>>, <<20452, 227>>, <<20453, 228>>, <<20454, 16833>>,
       <<20455, 229>>, <<20456, 16834>>, <<20457, 12265>>, <<20458, 16835>>, <<20459, 230>>, <<20460, 231>>,
       <<20461, 11389>>, <<20462, 15168>>, <<20463, 10555>>, <<20464, 232>>, <<20465, 11753>>,
       <<20466, 233>>, <<20467, 16845>>, <<20468, 234>>, <<20469, 235>>, <<20470, 236>>, <<20471, 237>>,
       <<20472, 16842>>, <<20473, 238>>, <<20474, 9045>>, <<20475, 239>>, <<20476, 240>>, <<20477, 241>>,
       <<20478, 16850>>, <<20479, 242>>, <<20480, 243>>, <<20481, 244>>, <<20482, 245>>, <<20483, 246>>,
       <<20484, 247>>, <<20485, 248>>, <<20486, 249>>, <<20487, 250>>, <<20488, 251>>, <<20489, 252>>,
       <<20490, 253>>, <<20491, 254>>, <<20492, 16852>>, <<20493, 9238>>, <<20494, 255>>, <<20495, 16847>>,
       <<20496, 256>>, <<20497, 257>>, <<20498, 10001>>, <<20499, 258>>, <<20500, 11769>>, <<20501, 259>>,
       <<20502, 260>>, <<20503, 261>>, <<20504, 14386>>, <<20505, 11008>>, <<20506, 15534>>, <<20507, 262>>,
       <<20508, 16851>>, <<20509, 263>>, <<20510, 264>>, <<20511, 11568>>, <<20512, 265>>, <<20513, 9607>>,
       <<20514, 266>>, <<20515, 267>>, <<20516, 268>>, <<20517, 16853>>, <<20518, 11761>>, <<20519, 269>>,
       <<20520, 16854>>, <<20521, 16843>>, <<20522, 12889>>, <<20523, 270>>, <<20524, 16846>>,
       <<20525, 16849>>, <<20526, 16848>>, <<20527, 271>>, <<20528, 272>>, <<20529, 273>>, <<20530, 274>>,
       <<20531, 275>>, <<20532, 276>>, <<20533, 277>>, <<20534, 278>>, <<20535, 279>>, <<20536, 280>>,
       <<20537, 281>>, <<20538, 16070>>, <<20539, 282>>, <<20540, 16267>>, <<20541, 283>>, <<20542, 13463>>,
       <<20543, 284>>, <<20544, 285>>, <<20545, 286>>, <<20546, 287>>, <<20547, 16856>>, <<20548, 288>>,
       <<20549, 289>>, <<20550, 290>>, <<20551, 11363>>, <<20552, 16858>>, <<20553, 291>>, <<20554, 292>>,
       <<20555, 293>>, <<20556, 16844>>, <<20557, 294>>, <<20558, 16859>>, <<20559, 13217>>, <<20560, 295>>,
       <<20561, 296>>, <<20562, 297>>, <<20563, 298>>, <<20564, 299>>, <<20565, 16857>>, <<20566, 300>>,
       <<20567, 301>>, <<20568, 302>>, <<20569, 303>>, <<20570, 16522>>, <<20571, 304>>, <<20572, 14539>>,
       <<20573, 305>>, <<20574, 306>>, <<20575, 307>>, <<20576, 308>>, <<20577, 309>>, <<20578, 310>>,
       <<20579, 311>>, <<20580, 312>>, <<20581, 11497>>, <<20582, 313>>, <<20583, 314>>, <<20584, 315>>,
       <<20585, 316>>, <<20586, 317>>, <<20587, 318>>, <<20588, 16860>>, <<20589, 319>>, <<20590, 320>>,
       <<20591, 321>>, <<20592, 322>>, <<20593, 323>>, <<20594, 324>>, <<20595, 325>>, <<20596, 326>>,
       <<20597, 327>>, <<20598, 13044>>, <<20599, 14557>>, <<20600, 328>>, <<20601, 329>>, <<20602, 330>>,
       <<20603, 16861>>, <<20604, 331>>, <<20605, 332>>, <<20606, 16855>>, <<20607, 9601>>,
       <<20608, 11970>>, <<20609, 333>>, <<20610, 334>>, <<20611, 335>>, <<20612, 336>>, <<20613, 10567>>,
       <<20614, 337>>, <<20615, 338>>, <<20616, 12158>>, <<20617, 339>>, <<20618, 340>>, <<20619, 341>>,
       <<20620, 342>>, <<20621, 9114>>, <<20622, 343>>, <<20623, 344>>, <<20624, 345>>, <<20625, 346>>,
       <<20626, 347>>, <<20627, 348>>, <<20628, 349>>, <<20629, 350>>, <<20630, 351>>, <<20631, 352>>,
       <<20632, 353>>, <<20633, 354>>, <<20634, 355>>, <<20635, 356>>, <<20636, 357>>, <<20637, 358>>,
       <<20638, 359>>, <<20639, 360>>, <<20640, 361>>, <<20641, 362>>, <<20642, 363>>, <<20643, 9872>>,
       <<20644, 364>>, <<20645, 16862>>, <<20646, 365>>, <<20647, 16863>>, <<20648, 9788>>,
       <<20649, 16864>>, <<20650, 366>>, <<20651, 367>>, <<20652, 9849>>, <<20653, 368>>, <<20654, 369>>,
       <<20655, 370>>, <<20656, 371>>, <<20657, 372>>, <<20658, 9059>>, <<20659, 373>>, <<20660, 374>>,
       <<20661, 375>>, <<20662, 376>>, <<20663, 377>>, <<20664, 378>>, <<20665, 379>>, <<20666, 16865>>,
       <<20667, 13797>>, <<20668, 380>>, <<20669, 381>>, <<20670, 382>>, <<20671, 383>>, <<20672, 384>>,
       <<20673, 385>>, <<20674, 386>>, <<20675, 387>>, <<20676, 388>>, <<20677, 389>>, <<20678, 390>>,
       <<20679, 391>>, <<20680, 392>>, <<20681, 393>>, <<20682, 394>>, <<20683, 395>>, <<20684, 396>>,
       <<20685, 397>>, <<20686, 398>>, <<20687, 14997>>, <<20688, 399>>, <<20689, 400>>, <<20690, 401>>,
       <<20691, 402>>, <<20692, 403>>, <<20693, 404>>, <<20694, 16866>>, <<20695, 405>>, <<20696, 406>>,
       <<20697, 407>>, <<20698, 12293>>, <<20699, 408>>, <<20700, 409>>, <<20701, 410>>, <<20702, 411>>,
       <<20703, 412>>, <<20704, 413>>, <<20705, 414>>, <<20706, 415>>, <<20707, 416>>, <<20708, 417>>,
       <<20709, 418>>, <<20710, 16870>>, <<20711, 13790>>, <<20712, 419>>, <<20713, 420>>, <<20714, 421>>,
       <<20715, 422>>, <<20716, 16869>>, <<20717, 16868>>, <<20718, 16871>>, <<20719, 423>>, <<20720, 424>>,
       <<20721, 425>>, <<20722, 426>>, <<20723, 14215>>, <<20724, 427>>, <<20725, 11505>>, <<20726, 428>>,
       <<20727, 429>>, <<20728, 430>>, <<20729, 431>>, <<20730, 432>>, <<20731, 13213>>, <<20732, 433>>,
       <<20733, 434>>, <<20734, 435>>, <<20735, 436>>, <<20736, 437>>, <<20737, 438>>, <<20738, 439>>,
       <<20739, 440>>, <<20740, 441>>, <<20741, 442>>, <<20742, 16867>>, <<20743, 16872>>, <<20744, 443>>,
       <<20745, 444>>, <<20746, 445>>, <<20747, 16873>>, <<20748, 446>>, <<20749, 447>>, <<20750, 448>>,
       <<20751, 449>>, <<20752, 450>>, <<20753, 451>>, <<20754, 13655>>, <<20755, 452>>, <<20756, 453>>,
       <<20757, 454>>, <<20758, 455>>, <<20759, 456>>, <<20760, 457>>, <<20761, 458>>, <<20762, 459>>,
       <<20763, 460>>, <<20764, 461>>, <<20765, 462>>, <<20766, 463>>, <<20767, 464>>, <<20768, 465>>,
       <<20769, 12126>>, <<20770, 466>>, <<20771, 467>>, <<20772, 468>>, <<20773, 469>>, <<20774, 470>>,
       <<20775, 471>>, <<20776, 472>>, <<20777, 473>>, <<20778, 474>>, <<20779, 475>>, <<20780, 476>>,
       <<20781, 477>>, <<20782, 478>>, <<20783, 479>>, <<20784, 480>>, <<20785, 481>>, <<20786, 482>>,
       <<20787, 483>>, <<20788, 484>>, <<20789, 485>>, <<20790, 486>>, <<20791, 487>>, <<20792, 488>>,
       <<20793, 489>>, <<20794, 490>>, <<20795, 491>>, <<20796, 492>>, <<20797, 493>>, <<20798, 494>>,
       <<20799, 10255>>, <<20800, 16629>>, <<20801, 15908>>, <<20802, 495>>, <<20803, 15876>>,
       <<20804, 15160>>, <<20805, 9664>>, <<20806, 16111>>, <<20807, 496>>, <<20808, 14956>>,
       <<20809, 10802>>, <<20810, 497>>, <<20811, 11919>>, <<20812, 498>>, <<20813, 12702>>, <<20814, 499>>,
       <<20815, 500>>, <<20816, 501>>, <<20817, 10216>>, <<20818, 502>>, <<20819, 503>>, <<20820, 14571>>,
       <<20821, 16894>>, <<20822, 16896>>, <<20823, 504>>, <<20824, 505>>, <<20825, 506>>, <<20826, 9995>>,
       <<20827, 507>>, <<20828, 10187>>, <<20829, 508>>, <<20830, 509>>, <<20831, 510>>, <<20832, 511>>,
       <<20833, 512>>, <<20834, 11690>>, <<20835, 513>>, <<20836, 514>>, <<20837, 13661>>, <<20838, 515>>,
       <<20839, 516>>, <<20840, 13597>>, <<20841, 517>>, <<20842, 518>>, <<20843, 9069>>, <<20844, 10747>>,
       <<20845, 12345>>, <<20846, 16882>>, <<20847, 519>>, <<20848, 12094>>, <<20849, 10754>>,
       <<20850, 520>>, <<20851, 10792>>, <<20852, 15149>>, <<20853, 9304>>, <<20854, 13274>>,
       <<20855, 11749>>, <<20856, 10044>>, <<20857, 16476>>, <<20858, 521>>, <<20859, 15384>>,
       <<20860, 11376>>, <<20861, 14028>>, <<20862, 522>>, <<20863, 523>>, <<20864, 11335>>,
       <<20865, 16886>>, <<20866, 16697>>, <<20867, 524>>, <<20868, 525>>, <<20869, 12884>>, <<20870, 526>>,
       <<20871, 527>>, <<20872, 10598>>, <<20873, 13615>>, <<20874, 528>>, <<20875, 529>>, <<20876, 9471>>,
       <<20877, 15923>>, <<20878, 530>>, <<20879, 531>>, <<20880, 532>>, <<20881, 533>>, <<20882, 12652>>,
       <<20883, 534>>, <<20884, 535>>, <<20885, 12701>>, <<20886, 17008>>, <<20887, 13649>>, <<20888, 536>>,
       <<20889, 15126>>, <<20890, 537>>, <<20891, 11778>>, <<20892, 13025>>, <<20893, 538>>, <<20894, 539>>,
       <<20895, 540>>, <<20896, 10794>>, <<20897, 541>>, <<20898, 17009>>, <<20899, 542>>, <<20900, 15875>>,
       <<20901, 17010>>, <<20902, 543>>, <<20903, 544>>, <<20904, 545>>, <<20905, 546>>, <<20906, 547>>,
       <<20907, 16907>>, <<20908, 10178>>, <<20909, 548>>, <<20910, 549>>, <<20911, 10431>>,
       <<20912, 9305>>, <<20913, 16908>>, <<20914, 9665>>, <<20915, 11772>>, <<20916, 550>>,
       <<20917, 11962>>, <<20918, 15503>>, <<20919, 12134>>, <<20920, 551>>, <<20921, 552>>, <<20922, 553>>,
       <<20923, 10185>>, <<20924, 16910>>, <<20925, 16909>>, <<20926, 554>>, <<20927, 555>>,
       <<20928, 11713>>, <<20929, 556>>, <<20930, 557>>, <<20931, 558>>, <<20932, 13270>>, <<20933, 559>>,
       <<20934, 16464>>, <<20935, 17007>>, <<20936, 560>>, <<20937, 12281>>, <<20938, 561>>,
       <<20939, 10058>>, <<20940, 12328>>, <<20941, 562>>, <<20942, 563>>, <<20943, 11391>>, <<20944, 564>>,
       <<20945, 9839>>, <<20946, 565>>, <<20947, 566>>, <<20948, 567>>, <<20949, 568>>, <<20950, 569>>,
       <<20951, 570>>, <<20952, 571>>, <<20953, 572>>, <<20954, 573>>, <<20955, 12317>>, <<20956, 574>>,
       <<20957, 12919>>, <<20958, 575>>, <<20959, 576>>, <<20960, 11330>>, <<20961, 10374>>, <<20962, 577>>,
       <<20963, 578>>, <<20964, 10435>>, <<20965, 579>>, <<20966, 580>>, <<20967, 581>>, <<20968, 582>>,
       <<20969, 583>>, <<20970, 584>>, <<20971, 16892>>, <<20972, 585>>, <<20973, 13236>>, <<20974, 586>>,
       <<20975, 11889>>, <<20976, 11159>>, <<20977, 587>>, <<20978, 588>>, <<20979, 10018>>, <<20980, 589>>,
       <<20981, 17237>>, <<20982, 15161>>, <<20983, 590>>, <<20984, 14561>>, <<20985, 9054>>,
       <<20986, 9682>>, <<20987, 11203>>, <<20988, 17238>>, <<20989, 10941>>, <<20990, 591>>,
       <<20991, 15934>>, <<20992, 9998>>, <<20993, 10059>>, <<20994, 16680>>, <<20995, 13634>>,
       <<20996, 592>>, <<20997, 593>>, <<20998, 10410>>, <<20999, 13444>>, <<21000, 16681>>, <<21001, 594>>,
       <<21002, 11891>>, <<21003, 595>>, <<21004, 596>>, <<21005, 17223>>, <<21006, 16682>>, <<21007, 597>>,
       <<21008, 598>>, <<21009, 15150>>, <<21010, 11130>>, <<21011, 599>>, <<21012, 600>>, <<21013, 601>>,
       <<21014, 20266>>, <<21015, 12304>>, <<21016, 12341>>, <<21017, 15948>>, <<21018, 10599>>,
       <<21019, 9806>>, <<21020, 602>>, <<21021, 9681>>, <<21022, 603>>, <<21023, 604>>, <<21024, 13806>>,
       <<21025, 605>>, <<21026, 606>>, <<21027, 607>>, <<21028, 13064>>, <<21029, 608>>, <<21030, 609>>,
       <<21031, 610>>, <<21032, 13073>>, <<21033, 12157>>, <<21034, 611>>, <<21035, 9296>>, <<21036, 612>>,
       <<21037, 16683>>, <<21038, 10782>>, <<21039, 613>>, <<21040, 10005>>, <<21041, 614>>, <<21042, 615>>,
       <<21043, 16684>>, <<21044, 616>>, <<21045, 617>>, <<21046, 16284>>, <<21047, 14158>>,
       <<21048, 13601>>, <<21049, 13794>>, <<21050, 9830>>, <<21051, 11920>>, <<21052, 618>>,
       <<21053, 10820>>, <<21054, 619>>, <<21055, 16685>>, <<21056, 16686>>, <<21057, 10237>>,
       <<21058, 11339>>, <<21059, 14420>>, <<21060, 620>>, <<21061, 621>>, <<21062, 622>>, <<21063, 623>>,
       <<21064, 624>>, <<21065, 625>>, <<21066, 15003>>, <<21067, 626>>, <<21068, 16687>>, <<21069, 13412>>,
       <<21070, 627>>, <<21071, 628>>, <<21072, 10784>>, <<21073, 11499>>, <<21074, 629>>, <<21075, 630>>,
       <<21076, 14408>>, <<21077, 631>>, <<21078, 13248>>, <<21079, 632>>, <<21080, 633>>, <<21081, 634>>,
       <<21082, 635>>, <<21083, 636>>, <<21084, 16690>>, <<21085, 637>>, <<21086, 16688>>, <<21087, 638>>,
       <<21088, 639>>, <<21089, 16689>>, <<21090, 640>>, <<21091, 641>>, <<21092, 642>>, <<21093, 9120>>,
       <<21094, 643>>, <<21095, 11757>>, <<21096, 644>>, <<21097, 13969>>, <<21098, 11390>>, <<21099, 645>>,
       <<21100, 646>>, <<21101, 647>>, <<21102, 648>>, <<21103, 10563>>, <<21104, 649>>, <<21105, 650>>,
       <<21106, 10624>>, <<21107, 651>>, <<21108, 652>>, <<21109, 653>>, <<21110, 654>>, <<21111, 655>>,
       <<21112, 656>>, <<21113, 657>>, <<21114, 658>>, <<21115, 659>>, <<21116, 660>>, <<21117, 16692>>,
       <<21118, 661>>, <<21119, 11539>>, <<21120, 662>>, <<21121, 16694>>, <<21122, 16693>>, <<21123, 663>>,
       <<21124, 664>>, <<21125, 665>>, <<21126, 666>>, <<21127, 667>>, <<21128, 13108>>, <<21129, 668>>,
       <<21130, 669>>, <<21131, 670>>, <<21132, 671>>, <<21133, 672>>, <<21134, 673>>, <<21135, 674>>,
       <<21136, 16695>>, <<21137, 675>>, <<21138, 676>>, <<21139, 16696>>, <<21140, 677>>, <<21141, 678>>,
       <<21142, 679>>, <<21143, 680>>, <<21144, 681>>, <<21145, 682>>, <<21146, 683>>, <<21147, 12262>>,
       <<21148, 684>>, <<21149, 13602>>, <<21150, 9102>>, <<21151, 10742>>, <<21152, 11357>>,
       <<21153, 14807>>, <<21154, 17225>>, <<21155, 12307>>, <<21156, 685>>, <<21157, 686>>, <<21158, 687>>,
       <<21159, 688>>, <<21160, 10181>>, <<21161, 16336>>, <<21162, 13028>>, <<21163, 11553>>,
       <<21164, 17226>>, <<21165, 17227>>, <<21166, 689>>, <<21167, 690>>, <<21168, 691>>, <<21169, 12154>>,
       <<21170, 11688>>, <<21171, 12111>>, <<21172, 692>>, <<21173, 693>>, <<21174, 694>>, <<21175, 695>>,
       <<21176, 696>>, <<21177, 697>>, <<21178, 698>>, <<21179, 699>>, <<21180, 700>>, <<21181, 701>>,
       <<21182, 17228>>, <<21183, 14004>>, <<21184, 702>>, <<21185, 703>>, <<21186, 704>>, <<21187, 9416>>,
       <<21188, 705>>, <<21189, 706>>, <<21190, 707>>, <<21191, 15710>>, <<21192, 708>>, <<21193, 12703>>,
       <<21194, 709>>, <<21195, 15307>>, <<21196, 710>>, <<21197, 711>>, <<21198, 712>>, <<21199, 713>>,
       <<21200, 17230>>, <<21201, 714>>, <<21202, 12119>>, <<21203, 715>>, <<21204, 716>>, <<21205, 717>>,
       <<21206, 17231>>, <<21207, 718>>, <<21208, 11893>>, <<21209, 719>>, <<21210, 720>>, <<21211, 721>>,
       <<21212, 722>>, <<21213, 723>>, <<21214, 724>>, <<21215, 12854>>, <<21216, 725>>, <<21217, 726>>,
       <<21218, 727>>, <<21219, 728>>, <<21220, 13454>>, <<21221, 729>>, <<21222, 730>>, <<21223, 731>>,
       <<21224, 732>>, <<21225, 733>>, <<21226, 734>>, <<21227, 735>>, <<21228, 736>>, <<21229, 737>>,
       <<21230, 738>>, <<21231, 739>>, <<21232, 17232>>, <<21233, 740>>, <<21234, 741>>, <<21235, 742>>,
       <<21236, 743>>, <<21237, 744>>, <<21238, 745>>, <<21239, 746>>, <<21240, 747>>, <<21241, 16888>>,
       <<21242, 13831>>, <<21243, 748>>, <<21244, 749>>, <<21245, 750>>, <<21246, 10756>>, <<21247, 14806>>,
       <<21248, 15906>>, <<21249, 751>>, <<21250, 752>>, <<21251, 753>>, <<21252, 754>>, <<21253, 9118>>,
       <<21254, 9836>>, <<21255, 755>>, <<21256, 15163>>, <<21257, 756>>, <<21258, 757>>, <<21259, 758>>,
       <<21260, 759>>, <<21261, 16889>>, <<21262, 760>>, <<21263, 17809>>, <<21264, 16891>>, <<21265, 761>>,
       <<21266, 762>>, <<21267, 763>>, <<21268, 764>>, <<21269, 16642>>, <<21270, 11131>>, <<21271, 9233>>,
       <<21272, 765>>, <<21273, 9651>>, <<21274, 16672>>, <<21275, 766>>, <<21276, 767>>, <<21277, 15915>>,
       <<21278, 768>>, <<21279, 769>>, <<21280, 11515>>, <<21281, 11955>>, <<21282, 770>>, <<21283, 14943>>,
       <<21284, 771>>, <<21285, 772>>, <<21286, 16674>>, <<21287, 773>>, <<21288, 774>>, <<21289, 775>>,
       <<21290, 10399>>, <<21291, 776>>, <<21292, 777>>, <<21293, 778>>, <<21294, 16675>>, <<21295, 779>>,
       <<21296, 780>>, <<21297, 781>>, <<21298, 782>>, <<21299, 783>>, <<21300, 784>>, <<21301, 785>>,
       <<21302, 786>>, <<21303, 787>>, <<21304, 788>>, <<21305, 13211>>, <<21306, 13484>>, <<21307, 15515>>,
       <<21308, 789>>, <<21309, 790>>, <<21310, 16676>>, <<21311, 12894>>, <<21312, 791>>, <<21313, 13980>>,
       <<21314, 792>>, <<21315, 13403>>, <<21316, 793>>, <<21317, 16632>>, <<21318, 794>>, <<21319, 13869>>,
       <<21320, 14797>>, <<21321, 11176>>, <<21322, 9101>>, <<21323, 795>>, <<21324, 796>>, <<21325, 797>>,
       <<21326, 11126>>, <<21327, 15119>>, <<21328, 798>>, <<21329, 9232>>, <<21330, 16504>>,
       <<21331, 16467>>, <<21332, 799>>, <<21333, 9981>>, <<21334, 12530>>, <<21335, 12873>>,
       <<21336, 800>>, <<21337, 801>>, <<21338, 9415>>, <<21339, 802>>, <<21340, 9429>>, <<21341, 803>>,
       <<21342, 9285>>, <<21343, 17974>>, <<21344, 16084>>, <<21345, 11884>>, <<21346, 12458>>,
       <<21347, 16679>>, <<21348, 12463>>, <<21349, 804>>, <<21350, 16678>>, <<21351, 14778>>,
       <<21352, 805>>, <<21353, 17070>>, <<21354, 806>>, <<21355, 14758>>, <<21356, 807>>, <<21357, 808>>,
       <<21358, 16646>>, <<21359, 12650>>, <<21360, 15677>>, <<21361, 14729>>, <<21362, 809>>,
       <<21363, 11326>>, <<21364, 13606>>, <<21365, 12495>>, <<21366, 810>>, <<21367, 11763>>,
       <<21368, 15128>>, <<21369, 811>>, <<21370, 17071>>, <<21371, 812>>, <<21372, 813>>, <<21373, 814>>,
       <<21374, 815>>, <<21375, 13464>>, <<21376, 816>>, <<21377, 817>>, <<21378, 9603>>, <<21379, 818>>,
       <<21380, 10248>>, <<21381, 14438>>, <<21382, 12156>>, <<21383, 819>>, <<21384, 820>>,
       <<21385, 12153>>, <<21386, 821>>, <<21387, 15321>>, <<21388, 15361>>, <<21389, 16665>>,
       <<21390, 822>>, <<21391, 823>>, <<21392, 824>>, <<21393, 825>>, <<21394, 826>>, <<21395, 827>>,
       <<21396, 828>>, <<21397, 9468>>, <<21398, 829>>, <<21399, 830>>, <<21400, 12135>>, <<21401, 831>>,
       <<21402, 11007>>, <<21403, 832>>, <<21404, 833>>, <<21405, 16666>>, <<21406, 834>>, <<21407, 15879>>,
       <<21408, 835>>, <<21409, 836>>, <<21410, 14981>>, <<21411, 16667>>, <<21412, 837>>, <<21413, 16668>>,
       <<21414, 14951>>, <<21415, 838>>, <<21416, 9684>>, <<21417, 11725>>, <<21418, 839>>, <<21419, 840>>,
       <<21420, 841>>, <<21421, 842>>, <<21422, 16669>>, <<21423, 843>>, <<21424, 844>>, <<21425, 845>>,
       <<21426, 846>>, <<21427, 847>>, <<21428, 848>>, <<21429, 849>>, <<21430, 17240>>, <<21431, 850>>,
       <<21432, 851>>, <<21433, 852>>, <<21434, 853>>, <<21435, 13591>>, <<21436, 854>>, <<21437, 855>>,
       <<21438, 856>>, <<21439, 14972>>, <<21440, 857>>, <<21441, 13680>>, <<21442, 9452>>, <<21443, 858>>,
       <<21444, 859>>, <<21445, 860>>, <<21446, 861>>, <<21447, 862>>, <<21448, 15730>>, <<21449, 9476>>,
       <<21450, 11322>>, <<21451, 15725>>, <<21452, 14167>>, <<21453, 10376>>, <<21454, 863>>,
       <<21455, 864>>, <<21456, 865>>, <<21457, 10358>>, <<21458, 866>>, <<21459, 867>>, <<21460, 14035>>,
       <<21461, 868>>, <<21462, 13587>>, <<21463, 14026>>, <<21464, 9284>>, <<21465, 15186>>,
       <<21466, 869>>, <<21467, 13065>>, <<21468, 870>>, <<21469, 871>>, <<21470, 872>>, <<21471, 17233>>,
       <<21472, 10070>>, <<21473, 873>>, <<21474, 874>>, <<21475, 11934>>, <<21476, 10773>>,
       <<21477, 11754>>, <<21478, 12333>>, <<21479, 875>>, <<21480, 17978>>, <<21481, 17977>>,
       <<21482, 16273>>, <<21483, 11544>>, <<21484, 16113>>, <<21485, 9066>>, <<21486, 10169>>,
       <<21487, 11917>>, <<21488, 14354>>, <<21489, 17975>>, <<21490, 13989>>, <<21491, 15726>>,
       <<21492, 876>>, <<21493, 16673>>, <<21494, 15508>>, <<21495, 10963>>, <<21496, 14186>>,
       <<21497, 14376>>, <<21498, 877>>, <<21499, 17979>>, <<21500, 10056>>, <<21501, 17976>>,
       <<21502, 878>>, <<21503, 879>>, <<21504, 880>>, <<21505, 15761>>, <<21506, 881>>, <<21507, 9648>>,
       <<21508, 10633>>, <<21509, 882>>, <<21510, 17982>>, <<21511, 883>>, <<21512, 10973>>,
       <<21513, 11316>>, <<21514, 10061>>, <<21515, 884>>, <<21516, 14548>>, <<21517, 12727>>,
       <<21518, 11009>>, <<21519, 12150>>, <<21520, 14570>>, <<21521, 14998>>, <<21522, 17980>>,
       <<21523, 14953>>, <<21524, 885>>, <<21525, 12478>>, <<21526, 17981>>, <<21527, 12526>>,
       <<21528, 886>>, <<21529, 887>>, <<21530, 888>>, <<21531, 11779>>, <<21532, 889>>, <<21533, 12319>>,
       <<21534, 14580>>, <<21535, 15573>>, <<21536, 10401>>, <<21537, 17989>>, <<21538, 890>>,
       <<21539, 17992>>, <<21540, 891>>, <<21541, 892>>, <<21542, 10437>>, <<21543, 9067>>,
       <<21544, 10220>>, <<21545, 10408>>, <<21546, 893>>, <<21547, 10938>>, <<21548, 14439>>,
       <<21549, 11928>>, <<21550, 14173>>, <<21551, 13290>>, <<21552, 894>>, <<21553, 16254>>,
       <<21554, 17993>>, <<21555, 895>>, <<21556, 14792>>, <<21557, 9615>>, <<21558, 896>>, <<21559, 897>>,
       <<21560, 14818>>, <<21561, 9807>>, <<21562, 898>>, <<21563, 14765>>, <<21564, 11006>>,
       <<21565, 899>>, <<21566, 14791>>, <<21567, 900>>, <<21568, 15325>>, <<21569, 901>>, <<21570, 902>>,
       <<21571, 17988>>, <<21572, 903>>, <<21573, 904>>, <<21574, 9870>>, <<21575, 905>>, <<21576, 9638>>,
       <<21577, 906>>, <<21578, 10616>>, <<21579, 17983>>, <<21580, 907>>, <<21581, 908>>, <<21582, 909>>,
       <<21583, 910>>, <<21584, 12863>>, <<21585, 911>>, <<21586, 17984>>, <<21587, 17985>>,
       <<21588, 17986>>, <<21589, 13043>>, <<21590, 17987>>, <<21591, 17990>>, <<21592, 15883>>,
       <<21593, 17991>>, <<21594, 912>>, <<21595, 13422>>, <<21596, 14782>>, <<21597, 913>>, <<21598, 914>>,
       <<21599, 915>>, <<21600, 916>>, <<21601, 917>>, <<21602, 12882>>, <<21603, 918>>, <<21604, 17998>>,
       <<21605, 919>>, <<21606, 18003>>, <<21607, 920>>, <<21608, 16306>>, <<21609, 921>>, <<21610, 922>>,
       <<21611, 923>>, <<21612, 924>>, <<21613, 925>>, <<21614, 926>>, <<21615, 927>>, <<21616, 928>>,
       <<21617, 17997>>, <<21618, 18014>>, <<21619, 14748>>, <<21620, 929>>, <<21621, 10965>>,
       <<21622, 18002>>, <<21623, 17996>>, <<21624, 13078>>, <<21625, 930>>, <<21626, 931>>,
       <<21627, 13851>>, <<21628, 11010>>, <<21629, 12728>>, <<21630, 932>>, <<21631, 933>>,
       <<21632, 11741>>, <<21633, 934>>, <<21634, 17994>>, <<21635, 935>>, <<21636, 18001>>, <<21637, 936>>,
       <<21638, 13072>>, <<21639, 937>>, <<21640, 938>>, <<21641, 939>>, <<21642, 940>>, <<21643, 16062>>,
       <<21644, 10971>>, <<21645, 941>>, <<21646, 11730>>, <<21647, 15705>>, <<21648, 10578>>,
       <<21649, 942>>, <<21650, 16314>>, <<21651, 943>>, <<21652, 17995>>, <<21653, 10766>>,
       <<21654, 11883>>, <<21655, 944>>, <<21656, 945>>, <<21657, 12348>>, <<21658, 17999>>,
       <<21659, 18000>>, <<21660, 946>>, <<21661, 18004>>, <<21662, 947>>, <<21663, 948>>, <<21664, 949>>,
       <<21665, 950>>, <<21666, 951>>, <<21667, 18015>>, <<21668, 18025>>, <<21669, 952>>, <<21670, 18011>>,
       <<21671, 18010>>, <<21672, 16477>>, <<21673, 18023>>, <<21674, 18024>>, <<21675, 19171>>,
       <<21676, 15493>>, <<21677, 18006>>, <<21678, 953>>, <<21679, 11885>>, <<21680, 954>>,
       <<21681, 15925>>, <<21682, 955>>, <<21683, 11916>>, <<21684, 18008>>, <<21685, 956>>, <<21686, 957>>,
       <<21687, 958>>, <<21688, 14960>>, <<21689, 959>>, <<21690, 960>>, <<21691, 18017>>, <<21692, 961>>,
       <<21693, 15338>>, <<21694, 962>>, <<21695, 18018>>, <<21696, 9033>>, <<21697, 13229>>,
       <<21698, 18007>>, <<21699, 963>>, <<21700, 10995>>, <<21701, 964>>, <<21702, 10229>>,
       <<21703, 14595>>, <<21704, 10830>>, <<21705, 15919>>, <<21706, 965>>, <<21707, 966>>,
       <<21708, 18019>>, <<21709, 14992>>, <<21710, 9031>>, <<21711, 18027>>, <<21712, 18005>>,
       <<21713, 15334>>, <<21714, 18009>>, <<21715, 18012>>, <<21716, 18013>>, <<21717, 18016>>,
       <<21718, 967>>, <<21719, 11125>>, <<21720, 968>>, <<21721, 18020>>, <<21722, 18021>>, <<21723, 969>>,
       <<21724, 18022>>, <<21725, 18026>>, <<21726, 18028>>, <<21727, 15696>>, <<21728, 970>>,
       <<21729, 971>>, <<21730, 972>>, <<21731, 973>>, <<21732, 974>>, <<21733, 10617>>, <<21734, 13038>>,
       <<21735, 18030>>, <<21736, 13834>>, <<21737, 12264>>, <<21738, 12862>>, <<21739, 975>>,
       <<21740, 976>>, <<21741, 11938>>, <<21742, 15004>>, <<21743, 977>>, <<21744, 978>>, <<21745, 979>>,
       <<21746, 16116>>, <<21747, 18034>>, <<21748, 980>>, <<21749, 981>>, <<21750, 982>>, <<21751, 983>>,
       <<21752, 984>>, <<21753, 985>>, <<21754, 9430>>, <<21755, 986>>, <<21756, 10989>>, <<21757, 18032>>,
       <<21758, 987>>, <<21759, 17229>>, <<21760, 988>>, <<21761, 15364>>, <<21762, 989>>, <<21763, 990>>,
       <<21764, 991>>, <<21765, 992>>, <<21766, 14240>>, <<21767, 9815>>, <<21768, 993>>, <<21769, 9032>>,
       <<21770, 994>>, <<21771, 995>>, <<21772, 996>>, <<21773, 997>>, <<21774, 998>>, <<21775, 18037>>,
       <<21776, 14384>>, <<21777, 18038>>, <<21778, 999>>, <<21779, 1000>>, <<21780, 18033>>,
       <<21781, 1001>>, <<21782, 1002>>, <<21783, 1003>>, <<21784, 1004>>, <<21785, 1005>>, <<21786, 1006>>,
       <<21787, 18029>>, <<21788, 1007>>, <<21789, 1008>>, <<21790, 1009>>, <<21791, 1010>>,
       <<21792, 18031>>, <<21793, 1011>>, <<21794, 18035>>, <<21795, 18036>>, <<21796, 11145>>,
       <<21797, 1012>>, <<21798, 1013>>, <<21799, 18039>>, <<21800, 1014>>, <<21801, 1015>>,
       <<21802, 18040>>, <<21803, 1016>>, <<21804, 11119>>, <<21805, 1017>>, <<21806, 14025>>,
       <<21807, 14734>>, <<21808, 18153>>, <<21809, 9606>>, <<21810, 1018>>, <<21811, 18152>>,
       <<21812, 1019>>, <<21813, 1020>>, <<21814, 1021>>, <<21815, 18147>>, <<21816, 1022>>,
       <<21817, 1023>>, <<21818, 1024>>, <<21819, 1025>>, <<21820, 18050>>, <<21821, 1026>>,
       <<21822, 14593>>, <<21823, 18048>>, <<21824, 1027>>, <<21825, 18046>>, <<21826, 1028>>,
       <<21827, 11924>>, <<21828, 16472>>, <<21829, 1029>>, <<21830, 13820>>, <<21831, 1030>>,
       <<21832, 1031>>, <<21833, 18044>>, <<21834, 9027>>, <<21835, 1032>>, <<21836, 1033>>,
       <<21837, 1034>>, <<21838, 1035>>, <<21839, 1036>>, <<21840, 18049>>, <<21841, 1037>>,
       <<21842, 1038>>, <<21843, 1039>>, <<21844, 1040>>, <<21845, 18047>>, <<21846, 18148>>,
       <<21847, 1041>>, <<21848, 1042>>, <<21849, 1043>>, <<21850, 1044>>, <<21851, 1045>>,
       <<21852, 18154>>, <<21853, 1046>>, <<21854, 1047>>, <<21855, 1048>>, <<21856, 1049>>,
       <<21857, 10396>>, <<21858, 1050>>, <<21859, 1051>>, <<21860, 13207>>, <<21861, 13798>>,
       <<21862, 12084>>, <<21863, 18041>>, <<21864, 1052>>, <<21865, 1053>>, <<21866, 13046>>,
       <<21867, 1054>>, <<21868, 16662>>, <<21869, 18045>>, <<21870, 12912>>, <<21871, 1055>>,
       <<21872, 1056>>, <<21873, 1057>>, <<21874, 1058>>, <<21875, 1059>>, <<21876, 1060>>,
       <<21877, 18149>>, <<21878, 18150>>, <<21879, 18151>>, <<21880, 15111>>, <<21881, 1061>>,
       <<21882, 1062>>, <<21883, 18166>>, <<21884, 14414>>, <<21885, 1063>>, <<21886, 18163>>,
       <<21887, 1064>>, <<21888, 11882>>, <<21889, 18161>>, <<21890, 14751>>, <<21891, 18157>>,
       <<21892, 13814>>, <<21893, 1065>>, <<21894, 1066>>, <<21895, 12080>>, <<21896, 18160>>,
       <<21897, 11003>>, <<21898, 10942>>, <<21899, 18155>>, <<21900, 1067>>, <<21901, 1068>>,
       <<21902, 1069>>, <<21903, 18042>>, <<21904, 1070>>, <<21905, 18165>>, <<21906, 1071>>,
       <<21907, 1072>>, <<21908, 18170>>, <<21909, 1073>>, <<21910, 1074>>, <<21911, 1075>>,
       <<21912, 9799>>, <<21913, 18171>>, <<21914, 1076>>, <<21915, 1077>>, <<21916, 14934>>,
       <<21917, 10966>>, <<21918, 1078>>, <<21919, 18162>>, <<21920, 1079>>, <<21921, 1080>>,
       <<21922, 1081>>, <<21923, 1082>>, <<21924, 1083>>, <<21925, 1084>>, <<21926, 1085>>,
       <<21927, 15196>>, <<21928, 1086>>, <<21929, 1087>>, <<21930, 1088>>, <<21931, 1089>>,
       <<21932, 1090>>, <<21933, 1091>>, <<21934, 1092>>, <<21935, 1093>>, <<21936, 1094>>,
       <<21937, 18158>>, <<21938, 1095>>, <<21939, 15957>>, <<21940, 1096>>, <<21941, 18043>>,
       <<21942, 1097>>, <<21943, 13087>>, <<21944, 1098>>, <<21945, 18159>>, <<21946, 1099>>,
       <<21947, 15763>>, <<21948, 1100>>, <<21949, 18168>>, <<21950, 18169>>, <<21951, 1101>>,
       <<21952, 1102>>, <<21953, 1103>>, <<21954, 1104>>, <<21955, 1105>>, <<21956, 18182>>,
       <<21957, 15171>>, <<21958, 1106>>, <<21959, 1107>>, <<21960, 1108>>, <<21961, 18174>>,
       <<21962, 1109>>, <<21963, 1110>>, <<21964, 18187>>, <<21965, 18188>>, <<21966, 1111>>,
       <<21967, 1112>>, <<21968, 1113>>, <<21969, 18176>>, <<21970, 18156>>, <<21971, 13780>>,
       <<21972, 18179>>, <<21973, 1114>>, <<21974, 18164>>, <<21975, 1115>>, <<21976, 1116>>,
       <<21977, 1117>>, <<21978, 1118>>, <<21979, 1119>>, <<21980, 14006>>, <<21981, 18181>>,
       <<21982, 1120>>, <<21983, 18167>>, <<21984, 1121>>, <<21985, 14769>>, <<21986, 1122>>,
       <<21987, 14191>>, <<21988, 18191>>, <<21989, 18184>>, <<21990, 18180>>, <<21991, 1123>>,
       <<21992, 18189>>, <<21993, 1124>>, <<21994, 18172>>, <<21995, 18177>>, <<21996, 18178>>,
       <<21997, 1125>>, <<21998, 1126>>, <<21999, 18183>>, <<22000, 1127>>, <<22001, 1128>>,
       <<22002, 18185>>, <<22003, 18186>>, <<22004, 1129>>, <<22005, 18190>>, <<22006, 1130>>,
       <<22007, 18173>>, <<22008, 1131>>, <<22009, 1132>>, <<22010, 1133>>, <<22011, 1134>>,
       <<22012, 1135>>, <<22013, 14208>>, <<22014, 18199>>, <<22015, 1136>>, <<22016, 18200>>,
       <<22017, 18196>>, <<22018, 1137>>, <<22019, 1138>>, <<22020, 1139>>, <<22021, 1140>>,
       <<22022, 1141>>, <<22023, 1142>>, <<22024, 18194>>, <<22025, 11352>>, <<22026, 1143>>,
       <<22027, 1144>>, <<22028, 18195>>, <<22029, 1145>>, <<22030, 10580>>, <<22031, 16663>>,
       <<22032, 1146>>, <<22033, 1147>>, <<22034, 1148>>, <<22035, 1149>>, <<22036, 1150>>, <<22037, 1151>>,
       <<22038, 1152>>, <<22039, 1153>>, <<22040, 15180>>, <<22041, 1154>>, <<22042, 1155>>,
       <<22043, 12525>>, <<22044, 1156>>, <<22045, 1157>>, <<22046, 18193>>, <<22047, 18175>>,
       <<22048, 1158>>, <<22049, 1159>>, <<22050, 1160>>, <<22051, 18198>>, <<22052, 18197>>,
       <<22053, 1161>>, <<22054, 1162>>, <<22055, 18201>>, <<22056, 1163>>, <<22057, 1164>>,
       <<22058, 1165>>, <<22059, 1166>>, <<22060, 18206>>, <<22061, 18202>>, <<22062, 1167>>,
       <<22063, 1168>>, <<22064, 1169>>, <<22065, 16332>>, <<22066, 9612>>, <<22067, 1170>>,
       <<22068, 16512>>, <<22069, 1171>>, <<22070, 14183>>, <<22071, 1172>>, <<22072, 1173>>,
       <<22073, 18204>>, <<22074, 1174>>, <<22075, 14817>>, <<22076, 1175>>, <<22077, 1176>>,
       <<22078, 1177>>, <<22079, 10983>>, <<22080, 1178>>, <<22081, 1179>>, <<22082, 1180>>,
       <<22083, 1181>>, <<22084, 1182>>, <<22085, 1183>>, <<22086, 1184>>, <<22087, 1185>>, <<22088, 1186>>,
       <<22089, 1187>>, <<22090, 1188>>, <<22091, 1189>>, <<22092, 18211>>, <<22093, 18207>>,
       <<22094, 15499>>, <<22095, 1190>>, <<22096, 1191>>, <<22097, 1192>>, <<22098, 1193>>,
       <<22099, 1194>>, <<22100, 18212>>, <<22101, 1195>>, <<22102, 1196>>, <<22103, 18205>>,
       <<22104, 18203>>, <<22105, 18209>>, <<22106, 1197>>, <<22107, 1198>>, <<22108, 18210>>,
       <<22109, 1199>>, <<22110, 1200>>, <<22111, 1201>>, <<22112, 1202>>, <<22113, 1203>>,
       <<22114, 18208>>, <<22115, 1204>>, <<22116, 18214>>, <<22117, 1205>>, <<22118, 1206>>,
       <<22119, 1207>>, <<22120, 13293>>, <<22121, 16638>>, <<22122, 15941>>, <<22123, 18216>>,
       <<22124, 14007>>, <<22125, 1208>>, <<22126, 1209>>, <<22127, 1210>>, <<22128, 1211>>,
       <<22129, 18215>>, <<22130, 1212>>, <<22131, 1213>>, <<22132, 1214>>, <<22133, 1215>>,
       <<22134, 10579>>, <<22135, 1216>>, <<22136, 1217>>, <<22137, 1218>>, <<22138, 1219>>,
       <<22139, 18217>>, <<22140, 18218>>, <<22141, 1220>>, <<22142, 1221>>, <<22143, 1222>>,
       <<22144, 1223>>, <<22145, 1224>>, <<22146, 1225>>, <<22147, 1226>>, <<22148, 1227>>,
       <<22149, 18219>>, <<22150, 18213>>, <<22151, 1228>>, <<22152, 1229>>, <<22153, 1230>>,
       <<22154, 1231>>, <<22155, 1232>>, <<22156, 1233>>, <<22157, 1234>>, <<22158, 10957>>,
       <<22159, 14417>>, <<22160, 1235>>, <<22161, 1236>>, <<22162, 1237>>, <<22163, 18220>>,
       <<22164, 1238>>, <<22165, 1239>>, <<22166, 1240>>, <<22167, 1241>>, <<22168, 1242>>, <<22169, 1243>>,
       <<22170, 1244>>, <<22171, 1245>>, <<22172, 1246>>, <<22173, 1247>>, <<22174, 1248>>, <<22175, 1249>>,
       <<22176, 1250>>, <<22177, 1251>>, <<22178, 1252>>, <<22179, 15005>>, <<22180, 1253>>,
       <<22181, 1254>>, <<22182, 1255>>, <<22183, 1256>>, <<22184, 1257>>, <<22185, 1258>>, <<22186, 1259>>,
       <<22187, 1260>>, <<22188, 1261>>, <<22189, 1262>>, <<22190, 1263>>, <<22191, 18221>>,
       <<22192, 1264>>, <<22193, 1265>>, <<22194, 1266>>, <<22195, 1267>>, <<22196, 1268>>, <<22197, 1269>>,
       <<22198, 1270>>, <<22199, 13620>>, <<22200, 1271>>, <<22201, 1272>>, <<22202, 1273>>,
       <<22203, 1274>>, <<22204, 11528>>, <<22205, 1275>>, <<22206, 1276>>, <<22207, 1277>>,
       <<22208, 1278>>, <<22209, 1279>>, <<22210, 1280>>, <<22211, 1281>>, <<22212, 1282>>, <<22213, 1283>>,
       <<22214, 1284>>, <<22215, 1285>>, <<22216, 1286>>, <<22217, 1287>>, <<22218, 12876>>,
       <<22219, 1288>>, <<22220, 1289>>, <<22221, 1290>>, <<22222, 1291>>, <<22223, 1292>>, <<22224, 1293>>,
       <<22225, 1294>>, <<22226, 1295>>, <<22227, 1296>>, <<22228, 18222>>, <<22229, 1297>>,
       <<22230, 1298>>, <<22231, 18223>>, <<22232, 1299>>, <<22233, 1300>>, <<22234, 13480>>,
       <<22235, 14192>>, <<22236, 1301>>, <<22237, 18224>>, <<22238, 11172>>, <<22239, 16648>>,
       <<22240, 15568>>, <<22241, 18225>>, <<22242, 14573>>, <<22243, 1302>>, <<22244, 10224>>,
       <<22245, 1303>>, <<22246, 1304>>, <<22247, 1305>>, <<22248, 1306>>, <<22249, 1307>>, <<22250, 1308>>,
       <<22251, 18227>>, <<22252, 1309>>, <<22253, 15882>>, <<22254, 1310>>, <<22255, 1311>>,
       <<22256, 12073>>, <<22257, 9835>>, <<22258, 1312>>, <<22259, 1313>>, <<22260, 14733>>,
       <<22261, 18226>>, <<22262, 1314>>, <<22263, 1315>>, <<22264, 1316>>, <<22265, 18228>>,
       <<22266, 10780>>, <<22267, 1317>>, <<22268, 1318>>, <<22269, 10826>>, <<22270, 14564>>,
       <<22271, 18229>>, <<22272, 1319>>, <<22273, 1320>>, <<22274, 1321>>, <<22275, 13258>>,
       <<22276, 18230>>, <<22277, 1322>>, <<22278, 15884>>, <<22279, 1323>>, <<22280, 13592>>,
       <<22281, 18232>>, <<22282, 18231>>, <<22283, 1324>>, <<22284, 1325>>, <<22285, 1326>>,
       <<22286, 1327>>, <<22287, 1328>>, <<22288, 1329>>, <<22289, 1330>>, <<22290, 1331>>, <<22291, 1332>>,
       <<22292, 1333>>, <<22293, 1334>>, <<22294, 1335>>, <<22295, 1336>>, <<22296, 1337>>, <<22297, 1338>>,
       <<22298, 1339>>, <<22299, 1340>>, <<22300, 18233>>, <<22301, 1341>>, <<22302, 1342>>,
       <<22303, 14569>>, <<22304, 1343>>, <<22305, 1344>>, <<22306, 1345>>, <<22307, 13971>>,
       <<22308, 1346>>, <<22309, 1347>>, <<22310, 1348>>, <<22311, 1349>>, <<22312, 15924>>,
       <<22313, 17251>>, <<22314, 17253>>, <<22315, 1350>>, <<22316, 17252>>, <<22317, 10807>>,
       <<22318, 17256>>, <<22319, 17257>>, <<22320, 10032>>, <<22321, 1351>>, <<22322, 1352>>,
       <<22323, 17254>>, <<22324, 1353>>, <<22325, 1354>>, <<22326, 1355>>, <<22327, 1356>>,
       <<22328, 1357>>, <<22329, 17255>>, <<22330, 9597>>, <<22331, 17259>>, <<22332, 1358>>,
       <<22333, 1359>>, <<22334, 11204>>, <<22335, 1360>>, <<22336, 16269>>, <<22337, 1361>>,
       <<22338, 17260>>, <<22339, 1362>>, <<22340, 1363>>, <<22341, 1364>>, <<22342, 1365>>,
       <<22343, 11775>>, <<22344, 1366>>, <<22345, 1367>>, <<22346, 10383>>, <<22347, 1368>>,
       <<22348, 17244>>, <<22349, 14360>>, <<22350, 11894>>, <<22351, 11137>>, <<22352, 16524>>,
       <<22353, 11927>>, <<22354, 1369>>, <<22355, 1370>>, <<22356, 1371>>, <<22357, 1372>>,
       <<22358, 1373>>, <<22359, 11949>>, <<22360, 1374>>, <<22361, 1375>>, <<22362, 11371>>,
       <<22363, 14365>>, <<22364, 17258>>, <<22365, 9077>>, <<22366, 14801>>, <<22367, 10412>>,
       <<22368, 16461>>, <<22369, 13240>>, <<22370, 1376>>, <<22371, 1377>>, <<22372, 12070>>,
       <<22373, 1378>>, <<22374, 14371>>, <<22375, 1379>>, <<22376, 17267>>, <<22377, 17261>>,
       <<22378, 13232>>, <<22379, 17263>>, <<22380, 1380>>, <<22381, 17268>>, <<22382, 1381>>,
       <<22383, 13103>>, <<22384, 1382>>, <<22385, 1383>>, <<22386, 1384>>, <<22387, 17270>>,
       <<22388, 1385>>, <<22389, 1386>>, <<22390, 17269>>, <<22391, 11908>>, <<22392, 1387>>,
       <<22393, 1388>>, <<22394, 1389>>, <<22395, 17266>>, <<22396, 17265>>, <<22397, 1390>>,
       <<22398, 1391>>, <<22399, 1392>>, <<22400, 1393>>, <<22401, 1394>>, <<22402, 9811>>,
       <<22403, 12078>>, <<22404, 12448>>, <<22405, 17262>>, <<22406, 17264>>, <<22407, 1395>>,
       <<22408, 1396>>, <<22409, 1397>>, <<22410, 1398>>, <<22411, 15151>>, <<22412, 17273>>,
       <<22413, 1399>>, <<22414, 1400>>, <<22415, 1401>>, <<22416, 1402>>, <<22417, 1403>>,
       <<22418, 12127>>, <<22419, 17278>>, <<22420, 1404>>, <<22421, 1405>>, <<22422, 1406>>,
       <<22423, 1407>>, <<22424, 1408>>, <<22425, 1409>>, <<22426, 1410>>, <<22427, 10232>>,
       <<22428, 1411>>, <<22429, 1412>>, <<22430, 1413>>, <<22431, 1414>>, <<22432, 17279>>,
       <<22433, 17246>>, <<22434, 10760>>, <<22435, 15877>>, <<22436, 17272>>, <<22437, 1415>>,
       <<22438, 11925>>, <<22439, 17276>>, <<22440, 1416>>, <<22441, 17245>>, <<22442, 1417>>,
       <<22443, 10046>>, <<22444, 1418>>, <<22445, 17271>>, <<22446, 11945>>, <<22447, 1419>>,
       <<22448, 1420>>, <<22449, 1421>>, <<22450, 17274>>, <<22451, 1422>>, <<22452, 17277>>,
       <<22453, 1423>>, <<22454, 1424>>, <<22455, 1425>>, <<22456, 17285>>, <<22457, 1426>>,
       <<22458, 1427>>, <<22459, 1428>>, <<22460, 1429>>, <<22461, 1430>>, <<22462, 1431>>, <<22463, 1432>>,
       <<22464, 1433>>, <<22465, 1434>>, <<22466, 10737>>, <<22467, 9029>>, <<22468, 1435>>,
       <<22469, 1436>>, <<22470, 1437>>, <<22471, 1438>>, <<22472, 1439>>, <<22473, 1440>>, <<22474, 1441>>,
       <<22475, 12527>>, <<22476, 1442>>, <<22477, 1443>>, <<22478, 9635>>, <<22479, 17275>>,
       <<22480, 1444>>, <<22481, 1445>>, <<22482, 17284>>, <<22483, 1446>>, <<22484, 13256>>,
       <<22485, 17280>>, <<22486, 1447>>, <<22487, 1448>>, <<22488, 17281>>, <<22489, 17283>>,
       <<22490, 17282>>, <<22491, 1449>>, <<22492, 1450>>, <<22493, 17290>>, <<22494, 1451>>,
       <<22495, 15758>>, <<22496, 9432>>, <<22497, 1452>>, <<22498, 1453>>, <<22499, 1454>>,
       <<22500, 17289>>, <<22501, 1455>>, <<22502, 1456>>, <<22503, 1457>>, <<22504, 1458>>,
       <<22505, 1459>>, <<22506, 1460>>, <<22507, 1461>>, <<22508, 1462>>, <<22509, 17390>>,
       <<22510, 1463>>, <<22511, 17287>>, <<22512, 1464>>, <<22513, 1465>>, <<22514, 1466>>,
       <<22515, 1467>>, <<22516, 17286>>, <<22517, 1468>>, <<22518, 1469>>, <<22519, 1470>>,
       <<22520, 17288>>, <<22521, 13080>>, <<22522, 11205>>, <<22523, 1471>>, <<22524, 1472>>,
       <<22525, 17389>>, <<22526, 1473>>, <<22527, 1474>>, <<22528, 17391>>, <<22529, 1475>>,
       <<22530, 14381>>, <<22531, 1476>>, <<22532, 1477>>, <<22533, 1478>>, <<22534, 10215>>,
       <<22535, 17608>>, <<22536, 1479>>, <<22537, 1480>>, <<22538, 1481>>, <<22539, 17387>>,
       <<22540, 1482>>, <<22541, 17388>>, <<22542, 1483>>, <<22543, 1484>>, <<22544, 1485>>,
       <<22545, 13417>>, <<22546, 1486>>, <<22547, 1487>>, <<22548, 1488>>, <<22549, 10239>>,
       <<22550, 1489>>, <<22551, 1490>>, <<22552, 1491>>, <<22553, 17393>>, <<22554, 1492>>,
       <<22555, 1493>>, <<22556, 1494>>, <<22557, 1495>>, <<22558, 17392>>, <<22559, 1496>>,
       <<22560, 17395>>, <<22561, 9220>>, <<22562, 1497>>, <<22563, 1498>>, <<22564, 10020>>,
       <<22565, 1499>>, <<22566, 1500>>, <<22567, 1501>>, <<22568, 1502>>, <<22569, 1503>>,
       <<22570, 11892>>, <<22571, 1504>>, <<22572, 1505>>, <<22573, 1506>>, <<22574, 1507>>,
       <<22575, 1508>>, <<22576, 15359>>, <<22577, 1509>>, <<22578, 1510>>, <<22579, 1511>>,
       <<22580, 1512>>, <<22581, 10200>>, <<22582, 1513>>, <<22583, 1514>>, <<22584, 1515>>,
       <<22585, 1516>>, <<22586, 1517>>, <<22587, 1518>>, <<22588, 1519>>, <<22589, 1520>>, <<22590, 1521>>,
       <<22591, 1522>>, <<22592, 1523>>, <<22593, 1524>>, <<22594, 1525>>, <<22595, 1526>>,
       <<22596, 17394>>, <<22597, 1527>>, <<22598, 1528>>, <<22599, 1529>>, <<22600, 1530>>,
       <<22601, 1531>>, <<22602, 1532>>, <<22603, 1533>>, <<22604, 14246>>, <<22605, 20319>>,
       <<22606, 1534>>, <<22607, 1535>>, <<22608, 1536>>, <<22609, 14216>>, <<22610, 1537>>,
       <<22611, 1538>>, <<22612, 14250>>, <<22613, 1539>>, <<22614, 1540>>, <<22615, 1541>>,
       <<22616, 14379>>, <<22617, 1542>>, <<22618, 1543>>, <<22619, 1544>>, <<22620, 1545>>,
       <<22621, 1546>>, <<22622, 13677>>, <<22623, 1547>>, <<22624, 1548>>, <<22625, 1549>>,
       <<22626, 1550>>, <<22627, 1551>>, <<22628, 1552>>, <<22629, 17396>>, <<22630, 1553>>,
       <<22631, 1554>>, <<22632, 1555>>, <<22633, 1556>>, <<22634, 1557>>, <<22635, 14424>>,
       <<22636, 17397>>, <<22637, 1558>>, <<22638, 1559>>, <<22639, 1560>>, <<22640, 1561>>,
       <<22641, 1562>>, <<22642, 1563>>, <<22643, 1564>>, <<22644, 1565>>, <<22645, 1566>>, <<22646, 1567>>,
       <<22647, 1568>>, <<22648, 1569>>, <<22649, 1570>>, <<22650, 1571>>, <<22651, 1572>>, <<22652, 1573>>,
       <<22653, 1574>>, <<22654, 17247>>, <<22655, 1575>>, <<22656, 17401>>, <<22657, 17398>>,
       <<22658, 1576>>, <<22659, 11705>>, <<22660, 1577>>, <<22661, 14057>>, <<22662, 1578>>,
       <<22663, 1579>>, <<22664, 1580>>, <<22665, 17399>>, <<22666, 1581>>, <<22667, 1582>>,
       <<22668, 1583>>, <<22669, 1584>>, <<22670, 1585>>, <<22671, 1586>>, <<22672, 1587>>, <<22673, 1588>>,
       <<22674, 13818>>, <<22675, 12851>>, <<22676, 1589>>, <<22677, 1590>>, <<22678, 1591>>,
       <<22679, 1592>>, <<22680, 1593>>, <<22681, 13425>>, <<22682, 17400>>, <<22683, 1594>>,
       <<22684, 1595>>, <<22685, 1596>>, <<22686, 15952>>, <<22687, 15176>>, <<22688, 1597>>,
       <<22689, 1598>>, <<22690, 1599>>, <<22691, 1600>>, <<22692, 1601>>, <<22693, 1602>>, <<22694, 1603>>,
       <<22695, 1604>>, <<22696, 12837>>, <<22697, 10219>>, <<22698, 1605>>, <<22699, 1606>>,
       <<22700, 1607>>, <<22701, 1608>>, <<22702, 1609>>, <<22703, 1610>>, <<22704, 1611>>, <<22705, 1612>>,
       <<22706, 1613>>, <<22707, 1614>>, <<22708, 1615>>, <<22709, 1616>>, <<22710, 1617>>, <<22711, 1618>>,
       <<22712, 1619>>, <<22713, 1620>>, <<22714, 1621>>, <<22715, 1622>>, <<22716, 17248>>,
       <<22717, 1623>>, <<22718, 1624>>, <<22719, 1625>>, <<22720, 1626>>, <<22721, 9274>>, <<22722, 1627>>,
       <<22723, 1628>>, <<22724, 1629>>, <<22725, 17249>>, <<22726, 1630>>, <<22727, 1631>>,
       <<22728, 1632>>, <<22729, 1633>>, <<22730, 1634>>, <<22731, 1635>>, <<22732, 1636>>, <<22733, 1637>>,
       <<22734, 1638>>, <<22735, 1639>>, <<22736, 1640>>, <<22737, 17250>>, <<22738, 1641>>,
       <<22739, 1642>>, <<22740, 1643>>, <<22741, 10956>>, <<22742, 1644>>, <<22743, 1645>>,
       <<22744, 1646>>, <<22745, 1647>>, <<22746, 1648>>, <<22747, 1649>>, <<22748, 1650>>, <<22749, 1651>>,
       <<22750, 1652>>, <<22751, 1653>>, <<22752, 1654>>, <<22753, 1655>>, <<22754, 1656>>, <<22755, 1657>>,
       <<22756, 13618>>, <<22757, 1658>>, <<22758, 1659>>, <<22759, 1660>>, <<22760, 1661>>,
       <<22761, 1662>>, <<22762, 1663>>, <<22763, 13997>>, <<22764, 13627>>, <<22765, 1664>>,
       <<22766, 16455>>, <<22767, 1665>>, <<22768, 13865>>, <<22769, 1666>>, <<22770, 1667>>,
       <<22771, 11915>>, <<22772, 1668>>, <<22773, 1669>>, <<22774, 11014>>, <<22775, 1670>>,
       <<22776, 1671>>, <<22777, 15514>>, <<22778, 1672>>, <<22779, 1673>>, <<22780, 1674>>,
       <<22781, 1675>>, <<22782, 1676>>, <<22783, 1677>>, <<22784, 1678>>, <<22785, 1679>>,
       <<22786, 18552>>, <<22787, 1680>>, <<22788, 9792>>, <<22789, 1681>>, <<22790, 1682>>,
       <<22791, 9240>>, <<22792, 1683>>, <<22793, 1684>>, <<22794, 1685>>, <<22795, 1686>>, <<22796, 1687>>,
       <<22797, 10566>>, <<22798, 1688>>, <<22799, 14952>>, <<22800, 1689>>, <<22801, 1690>>,
       <<22802, 1691>>, <<22803, 1692>>, <<22804, 16887>>, <<22805, 14922>>, <<22806, 14602>>,
       <<22807, 1693>>, <<22808, 1694>>, <<22809, 16893>>, <<22810, 10230>>, <<22811, 1695>>,
       <<22812, 15511>>, <<22813, 1696>>, <<22814, 1697>>, <<22815, 10763>>, <<22816, 1698>>,
       <<22817, 1699>>, <<22818, 1700>>, <<22819, 1701>>, <<22820, 18551>>, <<22821, 18549>>,
       <<22822, 1702>>, <<22823, 9869>>, <<22824, 1703>>, <<22825, 14422>>, <<22826, 14357>>,
       <<22827, 10438>>, <<22828, 1704>>, <<22829, 16644>>, <<22830, 15371>>, <<22831, 10953>>,
       <<22832, 1705>>, <<22833, 13973>>, <<22834, 1706>>, <<22835, 1707>>, <<22836, 14559>>,
       <<22837, 1708>>, <<22838, 1709>>, <<22839, 15522>>, <<22840, 11944>>, <<22841, 11354>>,
       <<22842, 10231>>, <<22843, 1710>>, <<22844, 17803>>, <<22845, 1711>>, <<22846, 1712>>,
       <<22847, 1713>>, <<22848, 1714>>, <<22849, 17804>>, <<22850, 17224>>, <<22851, 1715>>,
       <<22852, 15353>>, <<22853, 1716>>, <<22854, 1717>>, <<22855, 13276>>, <<22856, 12872>>,
       <<22857, 10434>>, <<22858, 1718>>, <<22859, 10416>>, <<22860, 1719>>, <<22861, 1720>>,
       <<22862, 11968>>, <<22863, 16500>>, <<22864, 1721>>, <<22865, 13291>>, <<22866, 1722>>,
       <<22867, 1723>>, <<22868, 9244>>, <<22869, 17806>>, <<22870, 11513>>, <<22871, 14401>>,
       <<22872, 17808>>, <<22873, 1724>>, <<22874, 17807>>, <<22875, 1725>>, <<22876, 1726>>,
       <<22877, 1727>>, <<22878, 1728>>, <<22879, 1729>>, <<22880, 10052>>, <<22881, 1730>>,
       <<22882, 13837>>, <<22883, 1731>>, <<22884, 1732>>, <<22885, 9060>>, <<22886, 1733>>,
       <<22887, 1734>>, <<22888, 1735>>, <<22889, 1736>>, <<22890, 1737>>, <<22891, 1738>>, <<22892, 1739>>,
       <<22893, 1740>>, <<22894, 1741>>, <<22895, 1742>>, <<22896, 1743>>, <<22897, 1744>>, <<22898, 1745>>,
       <<22899, 13030>>, <<22900, 13027>>, <<22901, 1746>>, <<22902, 12870>>, <<22903, 1747>>,
       <<22904, 11379>>, <<22905, 14249>>, <<22906, 1748>>, <<22907, 1749>>, <<22908, 1750>>,
       <<22909, 10961>>, <<22910, 1751>>, <<22911, 1752>>, <<22912, 1753>>, <<22913, 19185>>,
       <<22914, 13657>>, <<22915, 19186>>, <<22916, 14629>>, <<22917, 1754>>, <<22918, 16453>>,
       <<22919, 10576>>, <<22920, 12518>>, <<22921, 1755>>, <<22922, 13635>>, <<22923, 1756>>,
       <<22924, 1757>>, <<22925, 19187>>, <<22926, 1758>>, <<22927, 1759>>, <<22928, 1760>>,
       <<22929, 1761>>, <<22930, 10208>>, <<22931, 11349>>, <<22932, 1762>>, <<22933, 1763>>,
       <<22934, 15389>>, <<22935, 19287>>, <<22936, 1764>>, <<22937, 12714>>, <<22938, 1765>>,
       <<22939, 1766>>, <<22940, 1767>>, <<22941, 1768>>, <<22942, 19290>>, <<22943, 1769>>,
       <<22944, 1770>>, <<22945, 1771>>, <<22946, 1772>>, <<22947, 19190>>, <<22948, 19291>>,
       <<22949, 14591>>, <<22950, 1773>>, <<22951, 1774>>, <<22952, 10389>>, <<22953, 19188>>,
       <<22954, 19189>>, <<22955, 19289>>, <<22956, 1775>>, <<22957, 1776>>, <<22958, 12887>>,
       <<22959, 19294>>, <<22960, 1777>>, <<22961, 1778>>, <<22962, 19293>>, <<22963, 1779>>,
       <<22964, 1780>>, <<22965, 1781>>, <<22966, 1782>>, <<22967, 1783>>, <<22968, 1784>>,
       <<22969, 12671>>, <<22970, 1785>>, <<22971, 13268>>, <<22972, 1786>>, <<22973, 1787>>,
       <<22974, 19296>>, <<22975, 1788>>, <<22976, 1789>>, <<22977, 1790>>, <<22978, 1791>>,
       <<22979, 1792>>, <<22980, 1793>>, <<22981, 1794>>, <<22982, 12849>>, <<22983, 1795>>,
       <<22984, 1796>>, <<22985, 1797>>, <<22986, 19288>>, <<22987, 13994>>, <<22988, 1798>>,
       <<22989, 1799>>, <<22990, 1800>>, <<22991, 1801>>, <<22992, 11563>>, <<22993, 10771>>,
       <<22994, 19292>>, <<22995, 15159>>, <<22996, 14741>>, <<22997, 1802>>, <<22998, 1803>>,
       <<22999, 19295>>, <<23000, 19302>>, <<23001, 1804>>, <<23002, 15492>>, <<23003, 1805>>,
       <<23004, 11506>>, <<23005, 19299>>, <<23006, 1806>>, <<23007, 1807>>, <<23008, 1808>>,
       <<23009, 1809>>, <<23010, 1810>>, <<23011, 19301>>, <<23012, 1811>>, <<23013, 12115>>,
       <<23014, 1812>>, <<23015, 1813>>, <<23016, 15530>>, <<23017, 1814>>, <<23018, 1815>>,
       <<23019, 1816>>, <<23020, 11313>>, <<23021, 1817>>, <<23022, 1818>>, <<23023, 1819>>,
       <<23024, 1820>>, <<23025, 1821>>, <<23026, 1822>>, <<23027, 1823>>, <<23028, 1824>>, <<23029, 1825>>,
       <<23030, 1826>>, <<23031, 1827>>, <<23032, 1828>>, <<23033, 19303>>, <<23034, 1829>>,
       <<23035, 15572>>, <<23036, 1830>>, <<23037, 1831>>, <<23038, 1832>>, <<23039, 16479>>,
       <<23040, 1833>>, <<23041, 14630>>, <<23042, 1834>>, <<23043, 14598>>, <<23044, 12452>>,
       <<23045, 19297>>, <<23046, 19298>>, <<23047, 11527>>, <<23048, 19300>>, <<23049, 19305>>,
       <<23050, 1835>>, <<23051, 1836>>, <<23052, 19304>>, <<23053, 1837>>, <<23054, 1838>>,
       <<23055, 1839>>, <<23056, 1840>>, <<23057, 19308>>, <<23058, 1841>>, <<23059, 19310>>,
       <<23060, 1842>>, <<23061, 1843>>, <<23062, 1844>>, <<23063, 1845>>, <<23064, 12905>>,
       <<23065, 1846>>, <<23066, 1847>>, <<23067, 1848>>, <<23068, 12866>>, <<23069, 1849>>,
       <<23070, 1850>>, <<23071, 11760>>, <<23072, 13855>>, <<23073, 1851>>, <<23074, 1852>>,
       <<23075, 19309>>, <<23076, 1853>>, <<23077, 10246>>, <<23078, 1854>>, <<23079, 1855>>,
       <<23080, 1856>>, <<23081, 12704>>, <<23082, 1857>>, <<23083, 1858>>, <<23084, 1859>>,
       <<23085, 1860>>, <<23086, 1861>>, <<23087, 1862>>, <<23088, 1863>>, <<23089, 15749>>,
       <<23090, 19306>>, <<23091, 1864>>, <<23092, 19307>>, <<23093, 1865>>, <<23094, 13588>>,
       <<23095, 1866>>, <<23096, 1867>>, <<23097, 1868>>, <<23098, 1869>>, <<23099, 1870>>,
       <<23100, 19315>>, <<23101, 1871>>, <<23102, 1872>>, <<23103, 1873>>, <<23104, 19311>>,
       <<23105, 1874>>, <<23106, 1875>>, <<23107, 1876>>, <<23108, 1877>>, <<23109, 1878>>,
       <<23110, 13243>>, <<23111, 1879>>, <<23112, 1880>>, <<23113, 14617>>, <<23114, 19313>>,
       <<23115, 1881>>, <<23116, 1882>>, <<23117, 1883>>, <<23118, 1884>>, <<23119, 1885>>, <<23120, 1886>>,
       <<23121, 1887>>, <<23122, 1888>>, <<23123, 1889>>, <<23124, 1890>>, <<23125, 19314>>,
       <<23126, 1891>>, <<23127, 1892>>, <<23128, 1893>>, <<23129, 1894>>, <<23130, 11189>>,
       <<23131, 1895>>, <<23132, 1896>>, <<23133, 1897>>, <<23134, 1898>>, <<23135, 1899>>, <<23136, 1900>>,
       <<23137, 1901>>, <<23138, 19316>>, <<23139, 1902>>, <<23140, 1903>>, <<23141, 1904>>,
       <<23142, 1905>>, <<23143, 19312>>, <<23144, 1906>>, <<23145, 1907>>, <<23146, 12089>>,
       <<23147, 1908>>, <<23148, 1909>>, <<23149, 1910>>, <<23150, 1911>>, <<23151, 1912>>, <<23152, 1913>>,
       <<23153, 1914>>, <<23154, 1915>>, <<23155, 1916>>, <<23156, 15680>>, <<23157, 19317>>,
       <<23158, 13860>>, <<23159, 19321>>, <<23160, 1917>>, <<23161, 1918>>, <<23162, 19322>>,
       <<23163, 1919>>, <<23164, 1920>>, <<23165, 1921>>, <<23166, 1922>>, <<23167, 15192>>,
       <<23168, 1923>>, <<23169, 1924>>, <<23170, 1925>>, <<23171, 1926>>, <<23172, 1927>>, <<23173, 1928>>,
       <<23174, 1929>>, <<23175, 1930>>, <<23176, 1931>>, <<23177, 1932>>, <<23178, 1933>>, <<23179, 1934>>,
       <<23180, 1935>>, <<23181, 1936>>, <<23182, 1937>>, <<23183, 1938>>, <<23184, 1939>>, <<23185, 1940>>,
       <<23186, 12665>>, <<23187, 1941>>, <<23188, 1942>>, <<23189, 1943>>, <<23190, 1944>>,
       <<23191, 1945>>, <<23192, 1946>>, <<23193, 1947>>, <<23194, 12672>>, <<23195, 19320>>,
       <<23196, 1948>>, <<23197, 1949>>, <<23198, 1950>>, <<23199, 1951>>, <<23200, 1952>>, <<23201, 1953>>,
       <<23202, 1954>>, <<23203, 1955>>, <<23204, 1956>>, <<23205, 1957>>, <<23206, 1958>>, <<23207, 1959>>,
       <<23208, 1960>>, <<23209, 1961>>, <<23210, 19319>>, <<23211, 1962>>, <<23212, 1963>>,
       <<23213, 1964>>, <<23214, 1965>>, <<23215, 1966>>, <<23216, 1967>>, <<23217, 1968>>,
       <<23218, 19325>>, <<23219, 14933>>, <<23220, 1969>>, <<23221, 20320>>, <<23222, 1970>>,
       <<23223, 1971>>, <<23224, 19328>>, <<23225, 1972>>, <<23226, 1973>>, <<23227, 1974>>,
       <<23228, 1975>>, <<23229, 1976>>, <<23230, 19323>>, <<23231, 1977>>, <<23232, 1978>>,
       <<23233, 11368>>, <<23234, 13785>>, <<23235, 1979>>, <<23236, 1980>>, <<23237, 1981>>,
       <<23238, 1982>>, <<23239, 1983>>, <<23240, 1984>>, <<23241, 11327>>, <<23242, 1985>>,
       <<23243, 1986>>, <<23244, 14967>>, <<23245, 1987>>, <<23246, 1988>>, <<23247, 1989>>,
       <<23248, 1990>>, <<23249, 1991>>, <<23250, 19326>>, <<23251, 1992>>, <<23252, 19327>>,
       <<23253, 1993>>, <<23254, 19332>>, <<23255, 1994>>, <<23256, 19334>>, <<23257, 1995>>,
       <<23258, 1996>>, <<23259, 1997>>, <<23260, 19335>>, <<23261, 1998>>, <<23262, 1999>>,
       <<23263, 2000>>, <<23264, 19329>>, <<23265, 10029>>, <<23266, 2001>>, <<23267, 19330>>,
       <<23268, 2002>>, <<23269, 2003>>, <<23270, 19333>>, <<23271, 2004>>, <<23272, 2005>>,
       <<23273, 12885>>, <<23274, 2006>>, <<23275, 19324>>, <<23276, 2007>>, <<23277, 2008>>,
       <<23278, 2009>>, <<23279, 2010>>, <<23280, 2011>>, <<23281, 19331>>, <<23282, 2012>>,
       <<23283, 2013>>, <<23284, 2014>>, <<23285, 2015>>, <<23286, 2016>>, <<23287, 2017>>, <<23288, 2018>>,
       <<23289, 2019>>, <<23290, 2020>>, <<23291, 2021>>, <<23292, 2022>>, <<23293, 2023>>, <<23294, 2024>>,
       <<23295, 2025>>, <<23296, 2026>>, <<23297, 2027>>, <<23298, 2028>>, <<23299, 2029>>, <<23300, 2030>>,
       <<23301, 2031>>, <<23302, 2032>>, <<23303, 2033>>, <<23304, 2034>>, <<23305, 19336>>,
       <<23306, 2035>>, <<23307, 2036>>, <<23308, 2037>>, <<23309, 2038>>, <<23310, 2039>>, <<23311, 2040>>,
       <<23312, 2041>>, <<23313, 2042>>, <<23314, 2043>>, <<23315, 2044>>, <<23316, 2045>>, <<23317, 2046>>,
       <<23318, 19338>>, <<23319, 19337>>, <<23320, 2047>>, <<23321, 2048>>, <<23322, 2049>>,
       <<23323, 2050>>, <<23324, 2051>>, <<23325, 2052>>, <<23326, 2053>>, <<23327, 2054>>, <<23328, 2055>>,
       <<23329, 2056>>, <<23330, 2057>>, <<23331, 2058>>, <<23332, 2059>>, <<23333, 2060>>, <<23334, 2061>>,
       <<23335, 2062>>, <<23336, 2063>>, <<23337, 2064>>, <<23338, 2065>>, <<23339, 2066>>, <<23340, 2067>>,
       <<23341, 2068>>, <<23342, 2069>>, <<23343, 2070>>, <<23344, 2071>>, <<23345, 2072>>,
       <<23346, 19339>>, <<23347, 2073>>, <<23348, 16904>>, <<23349, 2074>>, <<23350, 2075>>,
       <<23351, 19340>>, <<23352, 2076>>, <<23353, 2077>>, <<23354, 2078>>, <<23355, 2079>>,
       <<23356, 2080>>, <<23357, 2081>>, <<23358, 2082>>, <<23359, 2083>>, <<23360, 19341>>,
       <<23361, 2084>>, <<23362, 2085>>, <<23363, 2086>>, <<23364, 2087>>, <<23365, 2088>>, <<23366, 2089>>,
       <<23367, 2090>>, <<23368, 2091>>, <<23369, 2092>>, <<23370, 2093>>, <<23371, 2094>>, <<23372, 2095>>,
       <<23373, 2096>>, <<23374, 2097>>, <<23375, 2098>>, <<23376, 16487>>, <<23377, 19347>>,
       <<23378, 2099>>, <<23379, 19348>>, <<23380, 11931>>, <<23381, 15914>>, <<23382, 2100>>,
       <<23383, 16490>>, <<23384, 9856>>, <<23385, 14235>>, <<23386, 19344>>, <<23387, 16661>>,
       <<23388, 16482>>, <<23389, 15108>>, <<23390, 2101>>, <<23391, 12683>>, <<23392, 2102>>,
       <<23393, 2103>>, <<23394, 19349>>, <<23395, 11336>>, <<23396, 10770>>, <<23397, 19345>>,
       <<23398, 15303>>, <<23399, 2104>>, <<23400, 2105>>, <<23401, 10928>>, <<23402, 12493>>,
       <<23403, 2106>>, <<23404, 16637>>, <<23405, 2107>>, <<23406, 2108>>, <<23407, 2109>>,
       <<23408, 14041>>, <<23409, 19174>>, <<23410, 2110>>, <<23411, 19346>>, <<23412, 2111>>,
       <<23413, 10441>>, <<23414, 2112>>, <<23415, 2113>>, <<23416, 2114>>, <<23417, 2115>>,
       <<23418, 13656>>, <<23419, 2116>>, <<23420, 2117>>, <<23421, 12911>>, <<23422, 2118>>,
       <<23423, 2119>>, <<23424, 19114>>, <<23425, 12920>>, <<23426, 2120>>, <<23427, 14248>>,
       <<23428, 19115>>, <<23429, 16068>>, <<23430, 2121>>, <<23431, 15754>>, <<23432, 14022>>,
       <<23433, 9044>>, <<23434, 2122>>, <<23435, 14202>>, <<23436, 14610>>, <<23437, 2123>>,
       <<23438, 2124>>, <<23439, 11000>>, <<23440, 2125>>, <<23441, 2126>>, <<23442, 2127>>,
       <<23443, 19117>>, <<23444, 2128>>, <<23445, 19116>>, <<23446, 2129>>, <<23447, 16494>>,
       <<23448, 10793>>, <<23449, 16316>>, <<23450, 10174>>, <<23451, 14616>>, <<23452, 15529>>,
       <<23453, 9222>>, <<23454, 13987>>, <<23455, 2130>>, <<23456, 9668>>, <<23457, 13859>>,
       <<23458, 11921>>, <<23459, 15197>>, <<23460, 14016>>, <<23461, 19118>>, <<23462, 11150>>,
       <<23463, 2131>>, <<23464, 2132>>, <<23465, 2133>>, <<23466, 14976>>, <<23467, 10748>>,
       <<23468, 2134>>, <<23469, 2135>>, <<23470, 2136>>, <<23471, 2137>>, <<23472, 15921>>,
       <<23473, 2138>>, <<23474, 2139>>, <<23475, 10932>>, <<23476, 15367>>, <<23477, 15008>>,
       <<23478, 11356>>, <<23479, 2140>>, <<23480, 19119>>, <<23481, 13647>>, <<23482, 2141>>,
       <<23483, 2142>>, <<23484, 2143>>, <<23485, 11953>>, <<23486, 9302>>, <<23487, 14218>>,
       <<23488, 2144>>, <<23489, 2145>>, <<23490, 11343>>, <<23491, 2146>>, <<23492, 11342>>,
       <<23493, 15576>>, <<23494, 12696>>, <<23495, 11936>>, <<23496, 2147>>, <<23497, 2148>>,
       <<23498, 2149>>, <<23499, 2150>>, <<23500, 10573>>, <<23501, 2151>>, <<23502, 2152>>,
       <<23503, 2153>>, <<23504, 12670>>, <<23505, 2154>>, <<23506, 10940>>, <<23507, 15868>>,
       <<23508, 2155>>, <<23509, 2156>>, <<23510, 2157>>, <<23511, 2158>>, <<23512, 2159>>, <<23513, 2160>>,
       <<23514, 2161>>, <<23515, 2162>>, <<23516, 2163>>, <<23517, 13458>>, <<23518, 12841>>,
       <<23519, 9482>>, <<23520, 2164>>, <<23521, 10785>>, <<23522, 2165>>, <<23523, 2166>>,
       <<23524, 19123>>, <<23525, 12296>>, <<23526, 2167>>, <<23527, 2168>>, <<23528, 16071>>,
       <<23529, 2169>>, <<23530, 2170>>, <<23531, 2171>>, <<23532, 2172>>, <<23533, 2173>>,
       <<23534, 19124>>, <<23535, 2174>>, <<23536, 19126>>, <<23537, 2175>>, <<23538, 2176>>,
       <<23539, 2177>>, <<23540, 2178>>, <<23541, 2179>>, <<23542, 2180>>, <<23543, 2181>>, <<23544, 9857>>,
       <<23545, 10218>>, <<23546, 14190>>, <<23547, 15312>>, <<23548, 10004>>, <<23549, 2182>>,
       <<23550, 2183>>, <<23551, 14023>>, <<23552, 2184>>, <<23553, 10422>>, <<23554, 2185>>,
       <<23555, 2186>>, <<23556, 13844>>, <<23557, 2187>>, <<23558, 11507>>, <<23559, 2188>>,
       <<23560, 2189>>, <<23561, 14756>>, <<23562, 16516>>, <<23563, 2190>>, <<23564, 2191>>,
       <<23565, 2192>>, <<23566, 2193>>, <<23567, 15107>>, <<23568, 2194>>, <<23569, 13833>>,
       <<23570, 2195>>, <<23571, 2196>>, <<23572, 10257>>, <<23573, 19342>>, <<23574, 11372>>,
       <<23575, 2197>>, <<23576, 9626>>, <<23577, 2198>>, <<23578, 13824>>, <<23579, 2199>>,
       <<23580, 19343>>, <<23581, 9598>>, <<23582, 2200>>, <<23583, 2201>>, <<23584, 2202>>,
       <<23585, 2203>>, <<23586, 17810>>, <<23587, 2204>>, <<23588, 15716>>, <<23589, 17811>>,
       <<23590, 2205>>, <<23591, 15488>>, <<23592, 2206>>, <<23593, 2207>>, <<23594, 2208>>,
       <<23595, 2209>>, <<23596, 17812>>, <<23597, 2210>>, <<23598, 2211>>, <<23599, 2212>>,
       <<23600, 2213>>, <<23601, 11731>>, <<23602, 2214>>, <<23603, 2215>>, <<23604, 17813>>,
       <<23605, 2216>>, <<23606, 2217>>, <<23607, 2218>>, <<23608, 13978>>, <<23609, 15578>>,
       <<23610, 9659>>, <<23611, 19170>>, <<23612, 12891>>, <<23613, 11687>>, <<23614, 14744>>,
       <<23615, 12908>>, <<23616, 11740>>, <<23617, 13214>>, <<23618, 9473>>, <<23619, 2219>>,
       <<23620, 2220>>, <<23621, 11737>>, <<23622, 2221>>, <<23623, 2222>>, <<23624, 13488>>,
       <<23625, 14421>>, <<23626, 11572>>, <<23627, 14787>>, <<23628, 2223>>, <<23629, 2224>>,
       <<23630, 13992>>, <<23631, 13239>>, <<23632, 19172>>, <<23633, 15134>>, <<23634, 2225>>,
       <<23635, 2226>>, <<23636, 2227>>, <<23637, 16081>>, <<23638, 2228>>, <<23639, 2229>>,
       <<23640, 2230>>, <<23641, 19173>>, <<23642, 2231>>, <<23643, 2232>>, <<23644, 2233>>,
       <<23645, 2234>>, <<23646, 14050>>, <<23647, 2235>>, <<23648, 14568>>, <<23649, 12483>>,
       <<23650, 2236>>, <<23651, 19175>>, <<23652, 2237>>, <<23653, 12482>>, <<23654, 19176>>,
       <<23655, 2238>>, <<23656, 2239>>, <<23657, 2240>>, <<23658, 2241>>, <<23659, 2242>>, <<23660, 2243>>,
       <<23661, 2244>>, <<23662, 19184>>, <<23663, 14581>>, <<23664, 2245>>, <<23665, 13805>>,
       <<23666, 2246>>, <<23667, 2247>>, <<23668, 2248>>, <<23669, 2249>>, <<23670, 2250>>, <<23671, 2251>>,
       <<23672, 2252>>, <<23673, 15543>>, <<23674, 18344>>, <<23675, 2253>>, <<23676, 2254>>,
       <<23677, 2255>>, <<23678, 2256>>, <<23679, 15752>>, <<23680, 2257>>, <<23681, 14230>>,
       <<23682, 13287>>, <<23683, 2258>>, <<23684, 2259>>, <<23685, 2260>>, <<23686, 2261>>,
       <<23687, 2262>>, <<23688, 18348>>, <<23689, 2263>>, <<23690, 2264>>, <<23691, 2265>>,
       <<23692, 18343>>, <<23693, 18345>>, <<23694, 2266>>, <<23695, 2267>>, <<23696, 18346>>,
       <<23697, 18351>>, <<23698, 2268>>, <<23699, 2269>>, <<23700, 9483>>, <<23701, 2270>>,
       <<23702, 18347>>, <<23703, 10604>>, <<23704, 18349>>, <<23705, 18350>>, <<23706, 18352>>,
       <<23707, 10002>>, <<23708, 18353>>, <<23709, 2271>>, <<23710, 2272>>, <<23711, 2273>>,
       <<23712, 2274>>, <<23713, 2275>>, <<23714, 18355>>, <<23715, 18360>>, <<23716, 2276>>,
       <<23717, 2277>>, <<23718, 2278>>, <<23719, 2279>>, <<23720, 2280>>, <<23721, 15346>>,
       <<23722, 2281>>, <<23723, 18358>>, <<23724, 18357>>, <<23725, 12331>>, <<23726, 2282>>,
       <<23727, 2283>>, <<23728, 2284>>, <<23729, 18359>>, <<23730, 2285>>, <<23731, 15898>>,
       <<23732, 2286>>, <<23733, 18354>>, <<23734, 2287>>, <<23735, 18362>>, <<23736, 9048>>,
       <<23737, 2288>>, <<23738, 2289>>, <<23739, 2290>>, <<23740, 2291>>, <<23741, 18356>>,
       <<23742, 2292>>, <<23743, 11965>>, <<23744, 2293>>, <<23745, 18361>>, <<23746, 2294>>,
       <<23747, 2295>>, <<23748, 18363>>, <<23749, 2296>>, <<23750, 2297>>, <<23751, 2298>>,
       <<23752, 2299>>, <<23753, 2300>>, <<23754, 2301>>, <<23755, 18366>>, <<23756, 2302>>,
       <<23757, 2303>>, <<23758, 2304>>, <<23759, 2305>>, <<23760, 2306>>, <<23761, 2307>>,
       <<23762, 18364>>, <<23763, 2308>>, <<23764, 2309>>, <<23765, 2310>>, <<23766, 2311>>,
       <<23767, 2312>>, <<23768, 2313>>, <<23769, 16283>>, <<23770, 2314>>, <<23771, 2315>>,
       <<23772, 2316>>, <<23773, 2317>>, <<23774, 2318>>, <<23775, 2319>>, <<23776, 2320>>,
       <<23777, 14947>>, <<23778, 2321>>, <<23779, 2322>>, <<23780, 18365>>, <<23781, 18367>>,
       <<23782, 12491>>, <<23783, 2323>>, <<23784, 10241>>, <<23785, 2324>>, <<23786, 15764>>,
       <<23787, 2325>>, <<23788, 2326>>, <<23789, 13441>>, <<23790, 2327>>, <<23791, 2328>>,
       <<23792, 10425>>, <<23793, 2329>>, <<23794, 2330>>, <<23795, 2331>>, <<23796, 2332>>,
       <<23797, 2333>>, <<23798, 2334>>, <<23799, 2335>>, <<23800, 2336>>, <<23801, 2337>>, <<23802, 2338>>,
       <<23803, 11780>>, <<23804, 2339>>, <<23805, 2340>>, <<23806, 2341>>, <<23807, 2342>>,
       <<23808, 2343>>, <<23809, 2344>>, <<23810, 18368>>, <<23811, 18369>>, <<23812, 2345>>,
       <<23813, 2346>>, <<23814, 18375>>, <<23815, 9667>>, <<23816, 2347>>, <<23817, 2348>>,
       <<23818, 2349>>, <<23819, 2350>>, <<23820, 2351>>, <<23821, 2352>>, <<23822, 13279>>,
       <<23823, 2353>>, <<23824, 2354>>, <<23825, 2355>>, <<23826, 2356>>, <<23827, 2357>>, <<23828, 9848>>,
       <<23829, 2358>>, <<23830, 15330>>, <<23831, 2359>>, <<23832, 2360>>, <<23833, 2361>>,
       <<23834, 2362>>, <<23835, 18376>>, <<23836, 2363>>, <<23837, 2364>>, <<23838, 18374>>,
       <<23839, 2365>>, <<23840, 2366>>, <<23841, 2367>>, <<23842, 2368>>, <<23843, 2369>>,
       <<23844, 18373>>, <<23845, 2370>>, <<23846, 18371>>, <<23847, 18370>>, <<23848, 2371>>,
       <<23849, 9248>>, <<23850, 2372>>, <<23851, 2373>>, <<23852, 2374>>, <<23853, 16080>>,
       <<23854, 18372>>, <<23855, 2375>>, <<23856, 2376>>, <<23857, 2377>>, <<23858, 2378>>,
       <<23859, 2379>>, <<23860, 18379>>, <<23861, 2380>>, <<23862, 2381>>, <<23863, 2382>>,
       <<23864, 2383>>, <<23865, 2384>>, <<23866, 2385>>, <<23867, 2386>>, <<23868, 2387>>,
       <<23869, 18380>>, <<23870, 18378>>, <<23871, 2388>>, <<23872, 2389>>, <<23873, 2390>>,
       <<23874, 2391>>, <<23875, 2392>>, <<23876, 2393>>, <<23877, 2394>>, <<23878, 2395>>,
       <<23879, 21086>>, <<23880, 2396>>, <<23881, 2397>>, <<23882, 18387>>, <<23883, 18386>>,
       <<23884, 13418>>, <<23885, 2398>>, <<23886, 2399>>, <<23887, 2400>>, <<23888, 2401>>,
       <<23889, 2402>>, <<23890, 2403>>, <<23891, 2404>>, <<23892, 2405>>, <<23893, 2406>>, <<23894, 2407>>,
       <<23895, 2408>>, <<23896, 18377>>, <<23897, 2409>>, <<23898, 2410>>, <<23899, 18382>>,
       <<23900, 2411>>, <<23901, 18384>>, <<23902, 2412>>, <<23903, 2413>>, <<23904, 2414>>,
       <<23905, 2415>>, <<23906, 2416>>, <<23907, 2417>>, <<23908, 2418>>, <<23909, 2419>>, <<23910, 2420>>,
       <<23911, 2421>>, <<23912, 2422>>, <<23913, 18388>>, <<23914, 2423>>, <<23915, 18385>>,
       <<23916, 18381>>, <<23917, 2424>>, <<23918, 2425>>, <<23919, 18383>>, <<23920, 2426>>,
       <<23921, 2427>>, <<23922, 2428>>, <<23923, 2429>>, <<23924, 18389>>, <<23925, 2430>>,
       <<23926, 2431>>, <<23927, 2432>>, <<23928, 2433>>, <<23929, 2434>>, <<23930, 2435>>, <<23931, 2436>>,
       <<23932, 2437>>, <<23933, 2438>>, <<23934, 2439>>, <<23935, 2440>>, <<23936, 2441>>, <<23937, 2442>>,
       <<23938, 18390>>, <<23939, 2443>>, <<23940, 2444>>, <<23941, 2445>>, <<23942, 2446>>,
       <<23943, 2447>>, <<23944, 2448>>, <<23945, 2449>>, <<23946, 2450>>, <<23947, 2451>>, <<23948, 2452>>,
       <<23949, 2453>>, <<23950, 2454>>, <<23951, 2455>>, <<23952, 2456>>, <<23953, 2457>>, <<23954, 2458>>,
       <<23955, 2459>>, <<23956, 2460>>, <<23957, 2461>>, <<23958, 2462>>, <<23959, 2463>>, <<23960, 2464>>,
       <<23961, 18391>>, <<23962, 2465>>, <<23963, 2466>>, <<23964, 2467>>, <<23965, 18392>>,
       <<23966, 2468>>, <<23967, 2469>>, <<23968, 2470>>, <<23969, 2471>>, <<23970, 2472>>, <<23971, 2473>>,
       <<23972, 2474>>, <<23973, 2475>>, <<23974, 2476>>, <<23975, 2477>>, <<23976, 2478>>, <<23977, 2479>>,
       <<23978, 2480>>, <<23979, 2481>>, <<23980, 2482>>, <<23981, 2483>>, <<23982, 2484>>, <<23983, 2485>>,
       <<23984, 2486>>, <<23985, 2487>>, <<23986, 2488>>, <<23987, 2489>>, <<23988, 2490>>, <<23989, 2491>>,
       <<23990, 2492>>, <<23991, 18394>>, <<23992, 2493>>, <<23993, 2494>>, <<23994, 2495>>,
       <<23995, 2496>>, <<23996, 2497>>, <<23997, 2498>>, <<23998, 2499>>, <<23999, 2500>>, <<24000, 2501>>,
       <<24001, 2502>>, <<24002, 2503>>, <<24003, 2504>>, <<24004, 2505>>, <<24005, 18395>>,
       <<24006, 2506>>, <<24007, 2507>>, <<24008, 2508>>, <<24009, 2509>>, <<24010, 2510>>, <<24011, 2511>>,
       <<24012, 2512>>, <<24013, 14727>>, <<24014, 2513>>, <<24015, 2514>>, <<24016, 2515>>,
       <<24017, 2516>>, <<24018, 2517>>, <<24019, 2518>>, <<24020, 2519>>, <<24021, 2520>>, <<24022, 2521>>,
       <<24023, 2522>>, <<24024, 2523>>, <<24025, 2524>>, <<24026, 2525>>, <<24027, 19537>>,
       <<24028, 2526>>, <<24029, 9794>>, <<24030, 16307>>, <<24031, 2527>>, <<24032, 2528>>,
       <<24033, 15314>>, <<24034, 9614>>, <<24035, 2529>>, <<24036, 2530>>, <<24037, 10740>>,
       <<24038, 16519>>, <<24039, 13437>>, <<24040, 11748>>, <<24041, 10750>>, <<24042, 2531>>,
       <<24043, 14781>>, <<24044, 2532>>, <<24045, 2533>>, <<24046, 9484>>, <<24047, 17243>>,
       <<24048, 2534>>, <<24049, 11332>>, <<24050, 15535>>, <<24051, 14196>>, <<24052, 9071>>,
       <<24053, 2535>>, <<24054, 2536>>, <<24055, 14995>>, <<24056, 2537>>, <<24057, 2538>>,
       <<24058, 2539>>, <<24059, 2540>>, <<24060, 2541>>, <<24061, 16883>>, <<24062, 11573>>,
       <<24063, 2542>>, <<24064, 2543>>, <<24065, 9266>>, <<24066, 14014>>, <<24067, 9434>>,
       <<24068, 2544>>, <<24069, 14163>>, <<24070, 10367>>, <<24071, 2545>>, <<24072, 13972>>,
       <<24073, 2546>>, <<24074, 2547>>, <<24075, 2548>>, <<24076, 14919>>, <<24077, 2549>>,
       <<24078, 2550>>, <<24079, 18234>>, <<24080, 16098>>, <<24081, 18237>>, <<24082, 2551>>,
       <<24083, 2552>>, <<24084, 18236>>, <<24085, 13049>>, <<24086, 14437>>, <<24087, 2553>>,
       <<24088, 12273>>, <<24089, 18235>>, <<24090, 16313>>, <<24091, 9421>>, <<24092, 16282>>,
       <<24093, 10035>>, <<24094, 2554>>, <<24095, 2555>>, <<24096, 2556>>, <<24097, 2557>>,
       <<24098, 2558>>, <<24099, 2559>>, <<24100, 2560>>, <<24101, 2561>>, <<24102, 9874>>,
       <<24103, 16247>>, <<24104, 2562>>, <<24105, 2563>>, <<24106, 2564>>, <<24107, 2565>>,
       <<24108, 2566>>, <<24109, 14931>>, <<24110, 9105>>, <<24111, 2567>>, <<24112, 2568>>,
       <<24113, 18238>>, <<24114, 2569>>, <<24115, 2570>>, <<24116, 2571>>, <<24117, 2572>>,
       <<24118, 2573>>, <<24119, 18337>>, <<24120, 9599>>, <<24121, 2574>>, <<24122, 2575>>,
       <<24123, 18239>>, <<24124, 18240>>, <<24125, 12653>>, <<24126, 2576>>, <<24127, 2577>>,
       <<24128, 2578>>, <<24129, 2579>>, <<24130, 12697>>, <<24131, 2580>>, <<24132, 18338>>,
       <<24133, 10445>>, <<24134, 2581>>, <<24135, 2582>>, <<24136, 2583>>, <<24137, 2584>>,
       <<24138, 2585>>, <<24139, 2586>>, <<24140, 11163>>, <<24141, 2587>>, <<24142, 2588>>,
       <<24143, 2589>>, <<24144, 2590>>, <<24145, 2591>>, <<24146, 2592>>, <<24147, 2593>>,
       <<24148, 18339>>, <<24149, 12853>>, <<24150, 2594>>, <<24151, 2595>>, <<24152, 2596>>,
       <<24153, 2597>>, <<24154, 2598>>, <<24155, 18340>>, <<24156, 2599>>, <<24157, 2600>>,
       <<24158, 18341>>, <<24159, 2601>>, <<24160, 2602>>, <<24161, 18342>>, <<24162, 9803>>,
       <<24163, 2603>>, <<24164, 2604>>, <<24165, 2605>>, <<24166, 2606>>, <<24167, 2607>>, <<24168, 2608>>,
       <<24169, 2609>>, <<24170, 2610>>, <<24171, 2611>>, <<24172, 2612>>, <<24173, 2613>>, <<24174, 2614>>,
       <<24175, 2615>>, <<24176, 2616>>, <<24177, 2617>>, <<24178, 10587>>, <<24179, 13235>>,
       <<24180, 12900>>, <<24181, 2618>>, <<24182, 9408>>, <<24183, 2619>>, <<24184, 15156>>,
       <<24185, 2620>>, <<24186, 19535>>, <<24187, 11151>>, <<24188, 15731>>, <<24189, 15712>>,
       <<24190, 2621>>, <<24191, 10803>>, <<24192, 18573>>, <<24193, 2622>>, <<24194, 2623>>,
       <<24195, 2624>>, <<24196, 16451>>, <<24197, 2625>>, <<24198, 13472>>, <<24199, 9267>>,
       <<24200, 2626>>, <<24201, 2627>>, <<24202, 9804>>, <<24203, 18575>>, <<24204, 2628>>,
       <<24205, 2629>>, <<24206, 2630>>, <<24207, 15188>>, <<24208, 12460>>, <<24209, 18574>>,
       <<24210, 2631>>, <<24211, 11942>>, <<24212, 15682>>, <<24213, 10031>>, <<24214, 18576>>,
       <<24215, 10050>>, <<24216, 2632>>, <<24217, 12713>>, <<24218, 10639>>, <<24219, 2633>>,
       <<24220, 10560>>, <<24221, 2634>>, <<24222, 13067>>, <<24223, 10403>>, <<24224, 18578>>,
       <<24225, 2635>>, <<24226, 2636>>, <<24227, 2637>>, <<24228, 2638>>, <<24229, 18577>>,
       <<24230, 10206>>, <<24231, 16525>>, <<24232, 2639>>, <<24233, 2640>>, <<24234, 2641>>,
       <<24235, 2642>>, <<24236, 2643>>, <<24237, 14541>>, <<24238, 2644>>, <<24239, 2645>>,
       <<24240, 2646>>, <<24241, 2647>>, <<24242, 2648>>, <<24243, 18582>>, <<24244, 2649>>,
       <<24245, 18580>>, <<24246, 14058>>, <<24247, 11897>>, <<24248, 15701>>, <<24249, 18579>>,
       <<24250, 2650>>, <<24251, 2651>>, <<24252, 2652>>, <<24253, 2653>>, <<24254, 18581>>,
       <<24255, 2654>>, <<24256, 2655>>, <<24257, 2656>>, <<24258, 2657>>, <<24259, 2658>>, <<24260, 2659>>,
       <<24261, 2660>>, <<24262, 2661>>, <<24263, 2662>>, <<24264, 2663>>, <<24265, 12270>>,
       <<24266, 12106>>, <<24267, 2664>>, <<24268, 2665>>, <<24269, 2666>>, <<24270, 2667>>,
       <<24271, 2668>>, <<24272, 2669>>, <<24273, 18585>>, <<24274, 18584>>, <<24275, 12076>>,
       <<24276, 2670>>, <<24277, 2671>>, <<24278, 12302>>, <<24279, 2672>>, <<24280, 2673>>,
       <<24281, 2674>>, <<24282, 2675>>, <<24283, 18586>>, <<24284, 2676>>, <<24285, 2677>>,
       <<24286, 2678>>, <<24287, 2679>>, <<24288, 2680>>, <<24289, 2681>>, <<24290, 2682>>, <<24291, 2683>>,
       <<24292, 2684>>, <<24293, 2685>>, <<24294, 2686>>, <<24295, 2687>>, <<24296, 18587>>,
       <<24297, 2688>>, <<24298, 18588>>, <<24299, 2689>>, <<24300, 2690>>, <<24301, 2691>>,
       <<24302, 2692>>, <<24303, 2693>>, <<24304, 2694>>, <<24305, 2695>>, <<24306, 2696>>, <<24307, 2697>>,
       <<24308, 17236>>, <<24309, 2698>>, <<24310, 15347>>, <<24311, 14538>>, <<24312, 2699>>,
       <<24313, 2700>>, <<24314, 11504>>, <<24315, 2701>>, <<24316, 2702>>, <<24317, 2703>>,
       <<24318, 17801>>, <<24319, 16631>>, <<24320, 11886>>, <<24321, 17241>>, <<24322, 15562>>,
       <<24323, 13296>>, <<24324, 13026>>, <<24325, 2704>>, <<24326, 2705>>, <<24327, 2706>>,
       <<24328, 17802>>, <<24329, 2707>>, <<24330, 9271>>, <<24331, 17970>>, <<24332, 2708>>,
       <<24333, 2709>>, <<24334, 2710>>, <<24335, 13995>>, <<24336, 2711>>, <<24337, 17973>>,
       <<24338, 2712>>, <<24339, 10749>>, <<24340, 2713>>, <<24341, 15579>>, <<24342, 2714>>,
       <<24343, 10551>>, <<24344, 11001>>, <<24345, 2715>>, <<24346, 2716>>, <<24347, 9654>>,
       <<24348, 2717>>, <<24349, 2718>>, <<24350, 2719>>, <<24351, 10036>>, <<24352, 16093>>,
       <<24353, 2720>>, <<24354, 2721>>, <<24355, 2722>>, <<24356, 2723>>, <<24357, 12690>>,
       <<24358, 14966>>, <<24359, 11117>>, <<24360, 2724>>, <<24361, 19179>>, <<24362, 19178>>,
       <<24363, 2725>>, <<24364, 2726>>, <<24365, 19180>>, <<24366, 2727>>, <<24367, 14604>>,
       <<24368, 2728>>, <<24369, 13671>>, <<24370, 2729>>, <<24371, 2730>>, <<24372, 2731>>,
       <<24373, 2732>>, <<24374, 2733>>, <<24375, 2734>>, <<24376, 2735>>, <<24377, 9991>>,
       <<24378, 13427>>, <<24379, 2736>>, <<24380, 19182>>, <<24381, 2737>>, <<24382, 2738>>,
       <<24383, 2739>>, <<24384, 20442>>, <<24385, 2740>>, <<24386, 2741>>, <<24387, 2742>>,
       <<24388, 2743>>, <<24389, 2744>>, <<24390, 2745>>, <<24391, 2746>>, <<24392, 2747>>, <<24393, 2748>>,
       <<24394, 2749>>, <<24395, 2750>>, <<24396, 2751>>, <<24397, 2752>>, <<24398, 2753>>, <<24399, 2754>>,
       <<24400, 19166>>, <<24401, 2755>>, <<24402, 10809>>, <<24403, 9993>>, <<24404, 2756>>,
       <<24405, 12474>>, <<24406, 19168>>, <<24407, 19167>>, <<24408, 19169>>, <<24409, 2757>>,
       <<24410, 2758>>, <<24411, 2759>>, <<24412, 2760>>, <<24413, 15531>>, <<24414, 2761>>,
       <<24415, 2762>>, <<24416, 2763>>, <<24417, 18410>>, <<24418, 15152>>, <<24419, 2764>>,
       <<24420, 14550>>, <<24421, 2765>>, <<24422, 15365>>, <<24423, 2766>>, <<24424, 2767>>,
       <<24425, 9448>>, <<24426, 9291>>, <<24427, 2768>>, <<24428, 9298>>, <<24429, 13093>>,
       <<24430, 2769>>, <<24431, 2770>>, <<24432, 16091>>, <<24433, 15692>>, <<24434, 2771>>,
       <<24435, 18396>>, <<24436, 2772>>, <<24437, 2773>>, <<24438, 2774>>, <<24439, 18397>>,
       <<24440, 2775>>, <<24441, 15545>>, <<24442, 2776>>, <<24443, 9621>>, <<24444, 9259>>,
       <<24445, 2777>>, <<24446, 2778>>, <<24447, 2779>>, <<24448, 14625>>, <<24449, 16143>>,
       <<24450, 18398>>, <<24451, 2780>>, <<24452, 11708>>, <<24453, 9879>>, <<24454, 2781>>,
       <<24455, 18399>>, <<24456, 10986>>, <<24457, 18400>>, <<24458, 11134>>, <<24459, 12487>>,
       <<24460, 18401>>, <<24461, 2782>>, <<24462, 2783>>, <<24463, 2784>>, <<24464, 15182>>,
       <<24465, 2785>>, <<24466, 14565>>, <<24467, 2786>>, <<24468, 2787>>, <<24469, 18402>>,
       <<24470, 2788>>, <<24471, 10011>>, <<24472, 13055>>, <<24473, 18403>>, <<24474, 2789>>,
       <<24475, 2790>>, <<24476, 18404>>, <<24477, 2791>>, <<24478, 2792>>, <<24479, 2793>>,
       <<24480, 2794>>, <<24481, 15765>>, <<24482, 2795>>, <<24483, 2796>>, <<24484, 2797>>,
       <<24485, 2798>>, <<24486, 2799>>, <<24487, 2800>>, <<24488, 18405>>, <<24489, 2801>>,
       <<24490, 15309>>, <<24491, 2802>>, <<24492, 2803>>, <<24493, 18406>>, <<24494, 14728>>,
       <<24495, 2804>>, <<24496, 2805>>, <<24497, 2806>>, <<24498, 2807>>, <<24499, 2808>>, <<24500, 2809>>,
       <<24501, 18407>>, <<24502, 2810>>, <<24503, 10010>>, <<24504, 2811>>, <<24505, 2812>>,
       <<24506, 2813>>, <<24507, 2814>>, <<24508, 18408>>, <<24509, 11169>>, <<24510, 2815>>,
       <<24511, 2816>>, <<24512, 2817>>, <<24513, 2818>>, <<24514, 2819>>, <<24515, 15142>>,
       <<24516, 18590>>, <<24517, 9272>>, <<24518, 15554>>, <<24519, 2820>>, <<24520, 2821>>,
       <<24521, 18591>>, <<24522, 2822>>, <<24523, 2823>>, <<24524, 11347>>, <<24525, 13630>>,
       <<24526, 2824>>, <<24527, 18593>>, <<24528, 20520>>, <<24529, 20519>>, <<24530, 17971>>,
       <<24531, 2825>>, <<24532, 2826>>, <<24533, 2827>>, <<24534, 18592>>, <<24535, 16276>>,
       <<24536, 14628>>, <<24537, 12642>>, <<24538, 2828>>, <<24539, 2829>>, <<24540, 2830>>,
       <<24541, 18751>>, <<24542, 2831>>, <<24543, 2832>>, <<24544, 16296>>, <<24545, 18597>>,
       <<24546, 2833>>, <<24547, 2834>>, <<24548, 18598>>, <<24549, 2835>>, <<24550, 2836>>,
       <<24551, 15715>>, <<24552, 2837>>, <<24553, 2838>>, <<24554, 18602>>, <<24555, 11952>>,
       <<24556, 2839>>, <<24557, 18603>>, <<24558, 18595>>, <<24559, 2840>>, <<24560, 2841>>,
       <<24561, 9628>>, <<24562, 2842>>, <<24563, 2843>>, <<24564, 2844>>, <<24565, 12904>>,
       <<24566, 2845>>, <<24567, 2846>>, <<24568, 18604>>, <<24569, 2847>>, <<24570, 2848>>,
       <<24571, 15141>>, <<24572, 2849>>, <<24573, 11012>>, <<24574, 18599>>, <<24575, 10418>>,
       <<24576, 11135>>, <<24577, 14358>>, <<24578, 14199>>, <<24579, 18594>>, <<24580, 18596>>,
       <<24581, 18600>>, <<24582, 18601>>, <<24583, 2850>>, <<24584, 2851>>, <<24585, 2852>>,
       <<24586, 18613>>, <<24587, 2853>>, <<24588, 2854>>, <<24589, 18610>>, <<24590, 15951>>,
       <<24591, 18609>>, <<24592, 2855>>, <<24593, 2856>>, <<24594, 13029>>, <<24595, 2857>>,
       <<24596, 16146>>, <<24597, 13050>>, <<24598, 9438>>, <<24599, 2858>>, <<24600, 2859>>,
       <<24601, 18605>>, <<24602, 2860>>, <<24603, 18608>>, <<24604, 12271>>, <<24605, 14184>>,
       <<24606, 2861>>, <<24607, 2862>>, <<24608, 9977>>, <<24609, 18615>>, <<24610, 2863>>,
       <<24611, 2864>>, <<24612, 2865>>, <<24613, 11323>>, <<24614, 18607>>, <<24615, 15158>>,
       <<24616, 15891>>, <<24617, 18611>>, <<24618, 10790>>, <<24619, 18612>>, <<24620, 2866>>,
       <<24621, 2867>>, <<24622, 2868>>, <<24623, 13447>>, <<24624, 2869>>, <<24625, 2870>>,
       <<24626, 2871>>, <<24627, 2872>>, <<24628, 2873>>, <<24629, 18606>>, <<24630, 2874>>,
       <<24631, 2875>>, <<24632, 2876>>, <<24633, 2877>>, <<24634, 2878>>, <<24635, 16496>>,
       <<24636, 20617>>, <<24637, 2879>>, <<24638, 2880>>, <<24639, 18614>>, <<24640, 2881>>,
       <<24641, 20621>>, <<24642, 18620>>, <<24643, 14015>>, <<24644, 2882>>, <<24645, 2883>>,
       <<24646, 2884>>, <<24647, 2885>>, <<24648, 2886>>, <<24649, 2887>>, <<24650, 2888>>,
       <<24651, 12277>>, <<24652, 2889>>, <<24653, 11164>>, <<24654, 2890>>, <<24655, 2891>>,
       <<24656, 11930>>, <<24657, 2892>>, <<24658, 10993>>, <<24659, 2893>>, <<24660, 2894>>,
       <<24661, 14157>>, <<24662, 2895>>, <<24663, 2896>>, <<24664, 2897>>, <<24665, 20622>>,
       <<24666, 20619>>, <<24667, 2898>>, <<24668, 2899>>, <<24669, 20618>>, <<24670, 2900>>,
       <<24671, 2901>>, <<24672, 2902>>, <<24673, 2903>>, <<24674, 11170>>, <<24675, 20623>>,
       <<24676, 15190>>, <<24677, 2904>>, <<24678, 2905>>, <<24679, 20620>>, <<24680, 10988>>,
       <<24681, 10253>>, <<24682, 18717>>, <<24683, 10184>>, <<24684, 14427>>, <<24685, 10743>>,
       <<24686, 2906>>, <<24687, 14918>>, <<24688, 13397>>, <<24689, 2907>>, <<24690, 2908>>,
       <<24691, 11926>>, <<24692, 2909>>, <<24693, 2910>>, <<24694, 10247>>, <<24695, 2911>>,
       <<24696, 18616>>, <<24697, 18617>>, <<24698, 18619>>, <<24699, 18618>>, <<24700, 12879>>,
       <<24701, 18718>>, <<24702, 2912>>, <<24703, 15709>>, <<24704, 2913>>, <<24705, 2914>>,
       <<24706, 2915>>, <<24707, 18723>>, <<24708, 13432>>, <<24709, 2916>>, <<24710, 2917>>,
       <<24711, 2918>>, <<24712, 2919>>, <<24713, 14920>>, <<24714, 2920>>, <<24715, 2921>>,
       <<24716, 18725>>, <<24717, 10949>>, <<24718, 2922>>, <<24719, 2923>>, <<24720, 2924>>,
       <<24721, 2925>>, <<24722, 18724>>, <<24723, 2926>>, <<24724, 11174>>, <<24725, 2927>>,
       <<24726, 18719>>, <<24727, 2928>>, <<24728, 2929>>, <<24729, 2930>>, <<24730, 18720>>,
       <<24731, 18726>>, <<24732, 2931>>, <<24733, 18722>>, <<24734, 2932>>, <<24735, 14808>>,
       <<24736, 15714>>, <<24737, 2933>>, <<24738, 2934>>, <<24739, 11144>>, <<24740, 2935>>,
       <<24741, 2936>>, <<24742, 15901>>, <<24743, 2937>>, <<24744, 12916>>, <<24745, 2938>>,
       <<24746, 2939>>, <<24747, 20624>>, <<24748, 15198>>, <<24749, 18721>>, <<24750, 2940>>,
       <<24751, 12721>>, <<24752, 2941>>, <<24753, 18729>>, <<24754, 9231>>, <<24755, 2942>>,
       <<24756, 18734>>, <<24757, 2943>>, <<24758, 2944>>, <<24759, 2945>>, <<24760, 11340>>,
       <<24761, 2946>>, <<24762, 2947>>, <<24763, 18728>>, <<24764, 10007>>, <<24765, 2948>>,
       <<24766, 2949>>, <<24767, 2950>>, <<24768, 2951>>, <<24769, 2952>>, <<24770, 2953>>, <<24771, 2954>>,
       <<24772, 2955>>, <<24773, 13469>>, <<24774, 18732>>, <<24775, 2956>>, <<24776, 2957>>,
       <<24777, 2958>>, <<24778, 11696>>, <<24779, 14615>>, <<24780, 2959>>, <<24781, 2960>>,
       <<24782, 2961>>, <<24783, 2962>>, <<24784, 2963>>, <<24785, 11199>>, <<24786, 2964>>,
       <<24787, 2965>>, <<24788, 2966>>, <<24789, 14418>>, <<24790, 2967>>, <<24791, 2968>>,
       <<24792, 18731>>, <<24793, 2969>>, <<24794, 18733>>, <<24795, 2970>>, <<24796, 14923>>,
       <<24797, 18730>>, <<24798, 2971>>, <<24799, 14735>>, <<24800, 11177>>, <<24801, 2972>>,
       <<24802, 2973>>, <<24803, 2974>>, <<24804, 2975>>, <<24805, 2976>>, <<24806, 10051>>,
       <<24807, 11755>>, <<24808, 9456>>, <<24809, 9641>>, <<24810, 2977>>, <<24811, 9241>>,
       <<24812, 18727>>, <<24813, 9455>>, <<24814, 9988>>, <<24815, 10799>>, <<24816, 10238>>,
       <<24817, 2978>>, <<24818, 2979>>, <<24819, 14991>>, <<24820, 18739>>, <<24821, 2980>>,
       <<24822, 11160>>, <<24823, 2981>>, <<24824, 2982>>, <<24825, 13625>>, <<24826, 15148>>,
       <<24827, 2983>>, <<24828, 2984>>, <<24829, 2985>>, <<24830, 2986>>, <<24831, 2987>>,
       <<24832, 18740>>, <<24833, 9674>>, <<24834, 2988>>, <<24835, 2989>>, <<24836, 2990>>,
       <<24837, 2991>>, <<24838, 20625>>, <<24839, 2992>>, <<24840, 15766>>, <<24841, 15744>>,
       <<24842, 2993>>, <<24843, 2994>>, <<24844, 2995>>, <<24845, 20626>>, <<24846, 18741>>,
       <<24847, 15552>>, <<24848, 2996>>, <<24849, 2997>>, <<24850, 2998>>, <<24851, 2999>>,
       <<24852, 3000>>, <<24853, 18737>>, <<24854, 3001>>, <<24855, 3002>>, <<24856, 3003>>,
       <<24857, 3004>>, <<24858, 15738>>, <<24859, 3005>>, <<24860, 3006>>, <<24861, 3007>>,
       <<24862, 3008>>, <<24863, 10594>>, <<24864, 18735>>, <<24865, 3009>>, <<24866, 3010>>,
       <<24867, 18738>>, <<24868, 10419>>, <<24869, 3011>>, <<24870, 18736>>, <<24871, 12068>>,
       <<24872, 3012>>, <<24873, 3013>>, <<24874, 3014>>, <<24875, 18742>>, <<24876, 3015>>,
       <<24877, 3016>>, <<24878, 3017>>, <<24879, 3018>>, <<24880, 3019>>, <<24881, 3020>>, <<24882, 3021>>,
       <<24883, 3022>>, <<24884, 3023>>, <<24885, 3024>>, <<24886, 3025>>, <<24887, 3026>>, <<24888, 3027>>,
       <<24889, 3028>>, <<24890, 3029>>, <<24891, 3030>>, <<24892, 3031>>, <<24893, 3032>>, <<24894, 3033>>,
       <<24895, 15890>>, <<24896, 3034>>, <<24897, 3035>>, <<24898, 3036>>, <<24899, 3037>>,
       <<24900, 3038>>, <<24901, 3039>>, <<24902, 3040>>, <<24903, 3041>>, <<24904, 9826>>, <<24905, 3042>>,
       <<24906, 18743>>, <<24907, 3043>>, <<24908, 11153>>, <<24909, 3044>>, <<24910, 13863>>,
       <<24911, 3045>>, <<24912, 3046>>, <<24913, 13845>>, <<24914, 3047>>, <<24915, 3048>>,
       <<24916, 3049>>, <<24917, 12855>>, <<24918, 3050>>, <<24919, 3051>>, <<24920, 3052>>,
       <<24921, 3053>>, <<24922, 3054>>, <<24923, 3055>>, <<24924, 3056>>, <<24925, 20627>>,
       <<24926, 3057>>, <<24927, 3058>>, <<24928, 3059>>, <<24929, 3060>>, <<24930, 12539>>,
       <<24931, 3061>>, <<24932, 3062>>, <<24933, 3063>>, <<24934, 3064>>, <<24935, 11175>>,
       <<24936, 11890>>, <<24937, 3065>>, <<24938, 3066>>, <<24939, 3067>>, <<24940, 3068>>,
       <<24941, 3069>>, <<24942, 3070>>, <<24943, 3071>>, <<24944, 14757>>, <<24945, 3072>>,
       <<24946, 3073>>, <<24947, 3074>>, <<24948, 3075>>, <<24949, 18744>>, <<24950, 3076>>,
       <<24951, 11898>>, <<24952, 3077>>, <<24953, 3078>>, <<24954, 3079>>, <<24955, 3080>>,
       <<24956, 3081>>, <<24957, 3082>>, <<24958, 3083>>, <<24959, 3084>>, <<24960, 3085>>, <<24961, 3086>>,
       <<24962, 3087>>, <<24963, 3088>>, <<24964, 3089>>, <<24965, 3090>>, <<24966, 3091>>, <<24967, 3092>>,
       <<24968, 3093>>, <<24969, 3094>>, <<24970, 3095>>, <<24971, 9295>>, <<24972, 3096>>, <<24973, 3097>>,
       <<24974, 15953>>, <<24975, 3098>>, <<24976, 3099>>, <<24977, 3100>>, <<24978, 3101>>,
       <<24979, 3102>>, <<24980, 18746>>, <<24981, 3103>>, <<24982, 3104>>, <<24983, 3105>>,
       <<24984, 3106>>, <<24985, 3107>>, <<24986, 3108>>, <<24987, 3109>>, <<24988, 3110>>,
       <<24989, 20629>>, <<24990, 3111>>, <<24991, 3112>>, <<24992, 3113>>, <<24993, 3114>>,
       <<24994, 3115>>, <<24995, 3116>>, <<24996, 3117>>, <<24997, 3118>>, <<24998, 3119>>,
       <<24999, 18747>>, <<25000, 10935>>, <<25001, 20628>>, <<25002, 3120>>, <<25003, 3121>>,
       <<25004, 18745>>, <<25005, 3122>>, <<25006, 3123>>, <<25007, 3124>>, <<25008, 3125>>,
       <<25009, 3126>>, <<25010, 3127>>, <<25011, 3128>>, <<25012, 3129>>, <<25013, 3130>>, <<25014, 3131>>,
       <<25015, 18748>>, <<25016, 3132>>, <<25017, 3133>>, <<25018, 3134>>, <<25019, 3135>>,
       <<25020, 3136>>, <<25021, 3137>>, <<25022, 10948>>, <<25023, 3138>>, <<25024, 3139>>,
       <<25025, 3140>>, <<25026, 10180>>, <<25027, 3141>>, <<25028, 3142>>, <<25029, 3143>>,
       <<25030, 3144>>, <<25031, 3145>>, <<25032, 15130>>, <<25033, 3146>>, <<25034, 9061>>,
       <<25035, 20630>>, <<25036, 3147>>, <<25037, 3148>>, <<25038, 3149>>, <<25039, 3150>>,
       <<25040, 3151>>, <<25041, 20631>>, <<25042, 12099>>, <<25043, 3152>>, <<25044, 18749>>,
       <<25045, 3153>>, <<25046, 3154>>, <<25047, 3155>>, <<25048, 3156>>, <<25049, 3157>>, <<25050, 3158>>,
       <<25051, 3159>>, <<25052, 3160>>, <<25053, 3161>>, <<25054, 3162>>, <<25055, 3163>>, <<25056, 3164>>,
       <<25057, 3165>>, <<25058, 3166>>, <<25059, 3167>>, <<25060, 3168>>, <<25061, 3169>>,
       <<25062, 13035>>, <<25063, 3170>>, <<25064, 3171>>, <<25065, 3172>>, <<25066, 3173>>,
       <<25067, 3174>>, <<25068, 3175>>, <<25069, 3176>>, <<25070, 3177>>, <<25071, 3178>>, <<25072, 3179>>,
       <<25073, 3180>>, <<25074, 3181>>, <<25075, 3182>>, <<25076, 3183>>, <<25077, 18750>>,
       <<25078, 3184>>, <<25079, 3185>>, <<25080, 3186>>, <<25081, 3187>>, <<25082, 3188>>, <<25083, 3189>>,
       <<25084, 3190>>, <<25085, 3191>>, <<25086, 3192>>, <<25087, 17404>>, <<25088, 3193>>,
       <<25089, 3194>>, <<25090, 3195>>, <<25091, 3196>>, <<25092, 3197>>, <<25093, 3198>>,
       <<25094, 20632>>, <<25095, 3199>>, <<25096, 10620>>, <<25097, 3200>>, <<25098, 14802>>,
       <<25099, 20053>>, <<25100, 15177>>, <<25101, 14055>>, <<25102, 13640>>, <<25103, 14939>>,
       <<25104, 9637>>, <<25105, 14776>>, <<25106, 11564>>, <<25107, 3201>>, <<25108, 3202>>,
       <<25109, 18778>>, <<25110, 11198>>, <<25111, 20054>>, <<25112, 16085>>, <<25113, 3203>>,
       <<25114, 13267>>, <<25115, 20055>>, <<25116, 3204>>, <<25117, 3205>>, <<25118, 3206>>,
       <<25119, 20056>>, <<25120, 3207>>, <<25121, 20058>>, <<25122, 20057>>, <<25123, 3208>>,
       <<25124, 20060>>, <<25125, 20059>>, <<25126, 3209>>, <<25127, 3210>>, <<25128, 3211>>,
       <<25129, 3212>>, <<25130, 11552>>, <<25131, 3213>>, <<25132, 20061>>, <<25133, 3214>>,
       <<25134, 12476>>, <<25135, 3215>>, <<25136, 3216>>, <<25137, 3217>>, <<25138, 3218>>,
       <<25139, 9819>>, <<25140, 9873>>, <<25141, 3219>>, <<25142, 3220>>, <<25143, 11123>>,
       <<25144, 3221>>, <<25145, 3222>>, <<25146, 3223>>, <<25147, 3224>>, <<25148, 3225>>,
       <<25149, 20496>>, <<25150, 20495>>, <<25151, 10387>>, <<25152, 14245>>, <<25153, 9282>>,
       <<25154, 3226>>, <<25155, 20497>>, <<25156, 3227>>, <<25157, 3228>>, <<25158, 3229>>,
       <<25159, 13816>>, <<25160, 20498>>, <<25161, 20499>>, <<25162, 3230>>, <<25163, 14020>>,
       <<25164, 17814>>, <<25165, 9443>>, <<25166, 15956>>, <<25167, 3231>>, <<25168, 3232>>,
       <<25169, 13249>>, <<25170, 9065>>, <<25171, 9868>>, <<25172, 13637>>, <<25173, 3233>>,
       <<25174, 3234>>, <<25175, 3235>>, <<25176, 14584>>, <<25177, 3236>>, <<25178, 3237>>,
       <<25179, 11900>>, <<25180, 3238>>, <<25181, 3239>>, <<25182, 3240>>, <<25183, 3241>>,
       <<25184, 3242>>, <<25185, 3243>>, <<25186, 3244>>, <<25187, 11935>>, <<25188, 3245>>,
       <<25189, 3246>>, <<25190, 13400>>, <<25191, 16266>>, <<25192, 3247>>, <<25193, 12075>>,
       <<25194, 17815>>, <<25195, 13784>>, <<25196, 15375>>, <<25197, 13020>>, <<25198, 9097>>,
       <<25199, 9618>>, <<25200, 13623>>, <<25201, 3248>>, <<25202, 3249>>, <<25203, 9092>>,
       <<25204, 3250>>, <<25205, 3251>>, <<25206, 10442>>, <<25207, 3252>>, <<25208, 3253>>,
       <<25209, 13106>>, <<25210, 3254>>, <<25211, 3255>>, <<25212, 10249>>, <<25213, 3256>>,
       <<25214, 16106>>, <<25215, 9644>>, <<25216, 11334>>, <<25217, 3257>>, <<25218, 3258>>,
       <<25219, 3259>>, <<25220, 9609>>, <<25221, 3260>>, <<25222, 3261>>, <<25223, 3262>>, <<25224, 3263>>,
       <<25225, 11767>>, <<25226, 9075>>, <<25227, 3264>>, <<25228, 3265>>, <<25229, 3266>>,
       <<25230, 3267>>, <<25231, 3268>>, <<25232, 3269>>, <<25233, 15540>>, <<25234, 14033>>,
       <<25235, 16441>>, <<25236, 3270>>, <<25237, 14558>>, <<25238, 10188>>, <<25239, 11901>>,
       <<25240, 16115>>, <<25241, 3271>>, <<25242, 10553>>, <<25243, 13071>>, <<25244, 3272>>,
       <<25245, 3273>>, <<25246, 3274>>, <<25247, 17816>>, <<25248, 11933>>, <<25249, 12499>>,
       <<25250, 13428>>, <<25251, 3275>>, <<25252, 11120>>, <<25253, 9224>>, <<25254, 3276>>,
       <<25255, 3277>>, <<25256, 13090>>, <<25257, 3278>>, <<25258, 3279>>, <<25259, 13107>>,
       <<25260, 14353>>, <<25261, 3280>>, <<25262, 3281>>, <<25263, 3282>>, <<25264, 3283>>,
       <<25265, 9223>>, <<25266, 3284>>, <<25267, 3285>>, <<25268, 3286>>, <<25269, 10030>>,
       <<25270, 3287>>, <<25271, 3288>>, <<25272, 3289>>, <<25273, 12834>>, <<25274, 3290>>,
       <<25275, 17817>>, <<25276, 15322>>, <<25277, 9669>>, <<25278, 3291>>, <<25279, 12718>>,
       <<25280, 3292>>, <<25281, 3293>>, <<25282, 10443>>, <<25283, 3294>>, <<25284, 16330>>,
       <<25285, 9979>>, <<25286, 9486>>, <<25287, 12846>>, <<25288, 12899>>, <<25289, 12079>>,
       <<25290, 17818>>, <<25291, 3295>>, <<25292, 9098>>, <<25293, 13052>>, <<25294, 12320>>,
       <<25295, 3296>>, <<25296, 10789>>, <<25297, 3297>>, <<25298, 11746>>, <<25299, 14592>>,
       <<25300, 9072>>, <<25301, 3298>>, <<25302, 14583>>, <<25303, 17820>>, <<25304, 11734>>,
       <<25305, 16466>>, <<25306, 17819>>, <<25307, 16104>>, <<25308, 9087>>, <<25309, 3299>>,
       <<25310, 3300>>, <<25311, 12892>>, <<25312, 3301>>, <<25313, 3302>>, <<25314, 12449>>,
       <<25315, 11386>>, <<25316, 3303>>, <<25317, 15697>>, <<25318, 12091>>, <<25319, 13017>>,
       <<25320, 9412>>, <<25321, 15947>>, <<25322, 3304>>, <<25323, 3305>>, <<25324, 12074>>,
       <<25325, 14001>>, <<25326, 17821>>, <<25327, 16148>>, <<25328, 3306>>, <<25329, 10752>>,
       <<25330, 3307>>, <<25331, 13599>>, <<25332, 14165>>, <<25333, 3308>>, <<25334, 17823>>,
       <<25335, 11905>>, <<25336, 3309>>, <<25337, 3310>>, <<25338, 3311>>, <<25339, 3312>>,
       <<25340, 13226>>, <<25341, 16443>>, <<25342, 13982>>, <<25343, 12861>>, <<25344, 3313>>,
       <<25345, 9650>>, <<25346, 10786>>, <<25347, 3314>>, <<25348, 3315>>, <<25349, 3316>>,
       <<25350, 3317>>, <<25351, 16270>>, <<25352, 20138>>, <<25353, 9046>>, <<25354, 3318>>,
       <<25355, 3319>>, <<25356, 3320>>, <<25357, 3321>>, <<25358, 11946>>, <<25359, 3322>>,
       <<25360, 3323>>, <<25361, 14430>>, <<25362, 3324>>, <<25363, 3325>>, <<25364, 3326>>,
       <<25365, 3327>>, <<25366, 14594>>, <<25367, 3328>>, <<25368, 3329>>, <<25369, 3330>>,
       <<25370, 16277>>, <<25371, 12492>>, <<25372, 3331>>, <<25373, 14772>>, <<25374, 14348>>,
       <<25375, 15120>>, <<25376, 12877>>, <<25377, 9994>>, <<25378, 17822>>, <<25379, 16141>>,
       <<25380, 11329>>, <<25381, 11167>>, <<25382, 3332>>, <<25383, 3333>>, <<25384, 9030>>,
       <<25385, 3334>>, <<25386, 13034>>, <<25387, 9862>>, <<25388, 3335>>, <<25389, 3336>>,
       <<25390, 3337>>, <<25391, 16137>>, <<25392, 3338>>, <<25393, 3339>>, <<25394, 20139>>,
       <<25395, 3340>>, <<25396, 3341>>, <<25397, 3342>>, <<25398, 3343>>, <<25399, 3344>>, <<25400, 3345>>,
       <<25401, 17824>>, <<25402, 14542>>, <<25403, 3346>>, <<25404, 3347>>, <<25405, 14612>>,
       <<25406, 3348>>, <<25407, 3349>>, <<25408, 3350>>, <<25409, 3351>>, <<25410, 14796>>,
       <<25411, 17826>>, <<25412, 3352>>, <<25413, 14553>>, <<25414, 12072>>, <<25415, 3353>>,
       <<25416, 3354>>, <<25417, 16465>>, <<25418, 3355>>, <<25419, 17825>>, <<25420, 9064>>,
       <<25421, 10946>>, <<25422, 13827>>, <<25423, 12909>>, <<25424, 11758>>, <<25425, 3356>>,
       <<25426, 3357>>, <<25427, 3358>>, <<25428, 3359>>, <<25429, 9428>>, <<25430, 3360>>, <<25431, 3361>>,
       <<25432, 3362>>, <<25433, 3363>>, <<25434, 3364>>, <<25435, 3365>>, <<25436, 3366>>, <<25437, 3367>>,
       <<25438, 12110>>, <<25439, 14236>>, <<25440, 3368>>, <<25441, 11387>>, <<25442, 11143>>,
       <<25443, 9999>>, <<25444, 3369>>, <<25445, 3370>>, <<25446, 3371>>, <<25447, 13101>>,
       <<25448, 3372>>, <<25449, 17836>>, <<25450, 3373>>, <<25451, 3374>>, <<25452, 3375>>,
       <<25453, 17833>>, <<25454, 11747>>, <<25455, 3376>>, <<25456, 3377>>, <<25457, 17829>>,
       <<25458, 3378>>, <<25459, 3379>>, <<25460, 3380>>, <<25461, 3381>>, <<25462, 9809>>,
       <<25463, 11557>>, <<25464, 3382>>, <<25465, 3383>>, <<25466, 17830>>, <<25467, 12903>>,
       <<25468, 3384>>, <<25469, 3385>>, <<25470, 3386>>, <<25471, 3387>>, <<25472, 14954>>,
       <<25473, 3388>>, <<25474, 10040>>, <<25475, 3389>>, <<25476, 3390>>, <<25477, 3391>>,
       <<25478, 3392>>, <<25479, 10228>>, <<25480, 14024>>, <<25481, 10060>>, <<25482, 17835>>,
       <<25483, 3393>>, <<25484, 16094>>, <<25485, 3394>>, <<25486, 17831>>, <<25487, 14391>>,
       <<25488, 13300>>, <<25489, 3395>>, <<25490, 13053>>, <<25491, 3396>>, <<25492, 3397>>,
       <<25493, 3398>>, <<25494, 15506>>, <<25495, 3399>>, <<25496, 11768>>, <<25497, 3400>>,
       <<25498, 3401>>, <<25499, 3402>>, <<25500, 3403>>, <<25501, 3404>>, <<25502, 3405>>, <<25503, 3406>>,
       <<25504, 12497>>, <<25505, 3407>>, <<25506, 14375>>, <<25507, 9620>>, <<25508, 3408>>,
       <<25509, 11547>>, <<25510, 3409>>, <<25511, 11932>>, <<25512, 14574>>, <<25513, 15354>>,
       <<25514, 9861>>, <<25515, 3410>>, <<25516, 17834>>, <<25517, 17827>>, <<25518, 17837>>,
       <<25519, 3411>>, <<25520, 20140>>, <<25521, 3412>>, <<25522, 3413>>, <<25523, 12462>>,
       <<25524, 17832>>, <<25525, 3414>>, <<25526, 3415>>, <<25527, 16278>>, <<25528, 9983>>,
       <<25529, 3416>>, <<25530, 9490>>, <<25531, 3417>>, <<25532, 17838>>, <<25533, 3418>>,
       <<25534, 17848>>, <<25535, 3419>>, <<25536, 3420>>, <<25537, 3421>>, <<25538, 3422>>,
       <<25539, 3423>>, <<25540, 17843>>, <<25541, 3424>>, <<25542, 17847>>, <<25543, 3425>>,
       <<25544, 3426>>, <<25545, 13650>>, <<25546, 3427>>, <<25547, 3428>>, <<25548, 3429>>,
       <<25549, 16501>>, <<25550, 17845>>, <<25551, 12708>>, <<25552, 14411>>, <<25553, 3430>>,
       <<25554, 9475>>, <<25555, 3431>>, <<25556, 3432>>, <<25557, 3433>>, <<25558, 15516>>,
       <<25559, 3434>>, <<25560, 3435>>, <<25561, 3436>>, <<25562, 3437>>, <<25563, 3438>>, <<25564, 3439>>,
       <<25565, 3440>>, <<25566, 17844>>, <<25567, 3441>>, <<25568, 17841>>, <<25569, 14779>>,
       <<25570, 3442>>, <<25571, 9793>>, <<25572, 3443>>, <<25573, 3444>>, <<25574, 3445>>, <<25575, 3446>>,
       <<25576, 3447>>, <<25577, 11887>>, <<25578, 11716>>, <<25579, 3448>>, <<25580, 3449>>,
       <<25581, 11546>>, <<25582, 3450>>, <<25583, 3451>>, <<25584, 3452>>, <<25585, 3453>>,
       <<25586, 17839>>, <<25587, 3454>>, <<25588, 15880>>, <<25589, 3455>>, <<25590, 17828>>,
       <<25591, 3456>>, <<25592, 17840>>, <<25593, 3457>>, <<25594, 3458>>, <<25595, 3459>>,
       <<25596, 3460>>, <<25597, 12097>>, <<25598, 3461>>, <<25599, 17842>>, <<25600, 9489>>,
       <<25601, 10619>>, <<25602, 12453>>, <<25603, 3462>>, <<25604, 3463>>, <<25605, 11529>>,
       <<25606, 3464>>, <<25607, 3465>>, <<25608, 3466>>, <<25609, 3467>>, <<25610, 3468>>,
       <<25611, 17851>>, <<25612, 17854>>, <<25613, 3469>>, <<25614, 3470>>, <<25615, 9417>>,
       <<25616, 9790>>, <<25617, 3471>>, <<25618, 3472>>, <<25619, 9860>>, <<25620, 13782>>,
       <<25621, 3473>>, <<25622, 3474>>, <<25623, 3475>>, <<25624, 3476>>, <<25625, 3477>>, <<25626, 3478>>,
       <<25627, 17852>>, <<25628, 14205>>, <<25629, 3479>>, <<25630, 10613>>, <<25631, 3480>>,
       <<25632, 17853>>, <<25633, 17856>>, <<25634, 3481>>, <<25635, 3482>>, <<25636, 3483>>,
       <<25637, 3484>>, <<25638, 17855>>, <<25639, 3485>>, <<25640, 3486>>, <<25641, 3487>>,
       <<25642, 14380>>, <<25643, 3488>>, <<25644, 9091>>, <<25645, 9864>>, <<25646, 3489>>,
       <<25647, 3490>>, <<25648, 3491>>, <<25649, 3492>>, <<25650, 3493>>, <<25651, 3494>>,
       <<25652, 19122>>, <<25653, 3495>>, <<25654, 3496>>, <<25655, 3497>>, <<25656, 3498>>,
       <<25657, 3499>>, <<25658, 15121>>, <<25659, 3500>>, <<25660, 3501>>, <<25661, 9481>>,
       <<25662, 3502>>, <<25663, 20237>>, <<25664, 3503>>, <<25665, 17850>>, <<25666, 3504>>,
       <<25667, 3505>>, <<25668, 13843>>, <<25669, 17849>>, <<25670, 9084>>, <<25671, 15487>>,
       <<25672, 9303>>, <<25673, 3506>>, <<25674, 14361>>, <<25675, 3507>>, <<25676, 3508>>,
       <<25677, 3509>>, <<25678, 3510>>, <<25679, 3511>>, <<25680, 3512>>, <<25681, 3513>>,
       <<25682, 17846>>, <<25683, 3514>>, <<25684, 14160>>, <<25685, 3515>>, <<25686, 3516>>,
       <<25687, 3517>>, <<25688, 16066>>, <<25689, 3518>>, <<25690, 3519>>, <<25691, 3520>>,
       <<25692, 3521>>, <<25693, 3522>>, <<25694, 17857>>, <<25695, 3523>>, <<25696, 3524>>,
       <<25697, 3525>>, <<25698, 3526>>, <<25699, 3527>>, <<25700, 3528>>, <<25701, 3529>>, <<25702, 3530>>,
       <<25703, 9847>>, <<25704, 3531>>, <<25705, 12832>>, <<25706, 3532>>, <<25707, 3533>>,
       <<25708, 3534>>, <<25709, 17859>>, <<25710, 3535>>, <<25711, 3536>>, <<25712, 3537>>,
       <<25713, 3538>>, <<25714, 3539>>, <<25715, 3540>>, <<25716, 3541>>, <<25717, 3542>>, <<25718, 3543>>,
       <<25719, 3544>>, <<25720, 12730>>, <<25721, 12827>>, <<25722, 17957>>, <<25723, 3545>>,
       <<25724, 3546>>, <<25725, 3547>>, <<25726, 3548>>, <<25727, 3549>>, <<25728, 3550>>, <<25729, 3551>>,
       <<25730, 12300>>, <<25731, 3552>>, <<25732, 17858>>, <<25733, 11765>>, <<25734, 3553>>,
       <<25735, 13224>>, <<25736, 3554>>, <<25737, 3555>>, <<25738, 3556>>, <<25739, 3557>>,
       <<25740, 3558>>, <<25741, 3559>>, <<25742, 3560>>, <<25743, 3561>>, <<25744, 3562>>, <<25745, 9633>>,
       <<25746, 13672>>, <<25747, 3563>>, <<25748, 3564>>, <<25749, 14182>>, <<25750, 17860>>,
       <<25751, 3565>>, <<25752, 3566>>, <<25753, 17960>>, <<25754, 3567>>, <<25755, 3568>>,
       <<25756, 3569>>, <<25757, 3570>>, <<25758, 16454>>, <<25759, 3571>>, <<25760, 3572>>,
       <<25761, 3573>>, <<25762, 3574>>, <<25763, 3575>>, <<25764, 9619>>, <<25765, 3576>>, <<25766, 3577>>,
       <<25767, 3578>>, <<25768, 3579>>, <<25769, 12291>>, <<25770, 3580>>, <<25771, 3581>>,
       <<25772, 13439>>, <<25773, 9411>>, <<25774, 9859>>, <<25775, 3582>>, <<25776, 16447>>,
       <<25777, 3583>>, <<25778, 3584>>, <<25779, 3585>>, <<25780, 3586>>, <<25781, 12902>>,
       <<25782, 3587>>, <<25783, 17958>>, <<25784, 17959>>, <<25785, 3588>>, <<25786, 17961>>,
       <<25787, 3589>>, <<25788, 10945>>, <<25789, 3590>>, <<25790, 3591>>, <<25791, 3592>>,
       <<25792, 17962>>, <<25793, 3593>>, <<25794, 12128>>, <<25795, 3594>>, <<25796, 3595>>,
       <<25797, 13811>>, <<25798, 3596>>, <<25799, 3597>>, <<25800, 3598>>, <<25801, 3599>>,
       <<25802, 3600>>, <<25803, 3601>>, <<25804, 3602>>, <<25805, 9463>>, <<25806, 13466>>,
       <<25807, 3603>>, <<25808, 17963>>, <<25809, 3604>>, <<25810, 13456>>, <<25811, 3605>>,
       <<25812, 3606>>, <<25813, 3607>>, <<25814, 3608>>, <<25815, 17964>>, <<25816, 20238>>,
       <<25817, 3609>>, <<25818, 3610>>, <<25819, 3611>>, <<25820, 3612>>, <<25821, 3613>>,
       <<25822, 14207>>, <<25823, 3614>>, <<25824, 3615>>, <<25825, 3616>>, <<25826, 17966>>,
       <<25827, 3617>>, <<25828, 17965>>, <<25829, 3618>>, <<25830, 9439>>, <<25831, 3619>>,
       <<25832, 3620>>, <<25833, 3621>>, <<25834, 3622>>, <<25835, 3623>>, <<25836, 3624>>, <<25837, 3625>>,
       <<25838, 3626>>, <<25839, 3627>>, <<25840, 3628>>, <<25841, 3629>>, <<25842, 3630>>, <<25843, 3631>>,
       <<25844, 3632>>, <<25845, 3633>>, <<25846, 3634>>, <<25847, 3635>>, <<25848, 3636>>, <<25849, 3637>>,
       <<25850, 3638>>, <<25851, 3639>>, <<25852, 3640>>, <<25853, 3641>>, <<25854, 3642>>, <<25855, 3643>>,
       <<25856, 13058>>, <<25857, 3644>>, <<25858, 3645>>, <<25859, 3646>>, <<25860, 3647>>,
       <<25861, 3648>>, <<25862, 3649>>, <<25863, 3650>>, <<25864, 3651>>, <<25865, 17967>>,
       <<25866, 3652>>, <<25867, 3653>>, <<25868, 3654>>, <<25869, 3655>>, <<25870, 3656>>, <<25871, 3657>>,
       <<25872, 3658>>, <<25873, 3659>>, <<25874, 15926>>, <<25875, 3660>>, <<25876, 3661>>,
       <<25877, 3662>>, <<25878, 3663>>, <<25879, 3664>>, <<25880, 13619>>, <<25881, 3665>>,
       <<25882, 3666>>, <<25883, 3667>>, <<25884, 3668>>, <<25885, 3669>>, <<25886, 3670>>, <<25887, 3671>>,
       <<25888, 3672>>, <<25889, 3673>>, <<25890, 3674>>, <<25891, 3675>>, <<25892, 3676>>,
       <<25893, 17968>>, <<25894, 3677>>, <<25895, 3678>>, <<25896, 3679>>, <<25897, 3680>>,
       <<25898, 3681>>, <<25899, 11766>>, <<25900, 3682>>, <<25901, 3683>>, <<25902, 17969>>,
       <<25903, 16253>>, <<25904, 3684>>, <<25905, 3685>>, <<25906, 3686>>, <<25907, 3687>>,
       <<25908, 20069>>, <<25909, 20258>>, <<25910, 14019>>, <<25911, 3688>>, <<25912, 16718>>,
       <<25913, 10582>>, <<25914, 3689>>, <<25915, 10741>>, <<25916, 3690>>, <<25917, 3691>>,
       <<25918, 10393>>, <<25919, 16150>>, <<25920, 3692>>, <<25921, 3693>>, <<25922, 3694>>,
       <<25923, 3695>>, <<25924, 3696>>, <<25925, 10778>>, <<25926, 3697>>, <<25927, 3698>>,
       <<25928, 15113>>, <<25929, 21991>>, <<25930, 3699>>, <<25931, 3700>>, <<25932, 10024>>,
       <<25933, 3701>>, <<25934, 3702>>, <<25935, 12720>>, <<25936, 3703>>, <<25937, 11726>>,
       <<25938, 3704>>, <<25939, 3705>>, <<25940, 3706>>, <<25941, 20259>>, <<25942, 9055>>,
       <<25943, 3707>>, <<25944, 3708>>, <<25945, 11540>>, <<25946, 3709>>, <<25947, 12274>>,
       <<25948, 3710>>, <<25949, 9270>>, <<25950, 9604>>, <<25951, 3711>>, <<25952, 3712>>, <<25953, 3713>>,
       <<25954, 10596>>, <<25955, 13778>>, <<25956, 3714>>, <<25957, 3715>>, <<25958, 10222>>,
       <<25959, 3716>>, <<25960, 3717>>, <<25961, 3718>>, <<25962, 3719>>, <<25963, 20260>>,
       <<25964, 11706>>, <<25965, 3720>>, <<25966, 3721>>, <<25967, 3722>>, <<25968, 14059>>,
       <<25969, 3723>>, <<25970, 13431>>, <<25971, 3724>>, <<25972, 16147>>, <<25973, 3725>>,
       <<25974, 3726>>, <<25975, 10439>>, <<25976, 3727>>, <<25977, 3728>>, <<25978, 3729>>,
       <<25979, 3730>>, <<25980, 3731>>, <<25981, 3732>>, <<25982, 3733>>, <<25983, 3734>>, <<25984, 3735>>,
       <<25985, 3736>>, <<25986, 3737>>, <<25987, 3738>>, <<25988, 3739>>, <<25989, 3740>>, <<25990, 3741>>,
       <<25991, 14762>>, <<25992, 3742>>, <<25993, 3743>>, <<25994, 3744>>, <<25995, 16067>>,
       <<25996, 9299>>, <<25997, 3745>>, <<25998, 3746>>, <<25999, 3747>>, <<26000, 20445>>,
       <<26001, 9089>>, <<26002, 3748>>, <<26003, 20447>>, <<26004, 3749>>, <<26005, 3750>>,
       <<26006, 3751>>, <<26007, 10189>>, <<26008, 3752>>, <<26009, 12303>>, <<26010, 3753>>,
       <<26011, 22226>>, <<26012, 15123>>, <<26013, 3754>>, <<26014, 3755>>, <<26015, 16125>>,
       <<26016, 3756>>, <<26017, 14777>>, <<26018, 3757>>, <<26019, 3758>>, <<26020, 11575>>,
       <<26021, 9662>>, <<26022, 3759>>, <<26023, 10557>>, <<26024, 3760>>, <<26025, 16078>>,
       <<26026, 3761>>, <<26027, 20645>>, <<26028, 3762>>, <<26029, 10213>>, <<26030, 3763>>,
       <<26031, 14181>>, <<26032, 15140>>, <<26033, 3764>>, <<26034, 3765>>, <<26035, 3766>>,
       <<26036, 3767>>, <<26037, 3768>>, <<26038, 3769>>, <<26039, 3770>>, <<26040, 3771>>,
       <<26041, 10385>>, <<26042, 3772>>, <<26043, 3773>>, <<26044, 20448>>, <<26045, 13975>>,
       <<26046, 3774>>, <<26047, 3775>>, <<26048, 3776>>, <<26049, 13068>>, <<26050, 3777>>,
       <<26051, 20451>>, <<26052, 20450>>, <<26053, 12481>>, <<26054, 20449>>, <<26055, 3778>>,
       <<26056, 3779>>, <<26057, 3780>>, <<26058, 3781>>, <<26059, 15199>>, <<26060, 20452>>,
       <<26061, 3782>>, <<26062, 20453>>, <<26063, 16505>>, <<26064, 3783>>, <<26065, 3784>>,
       <<26066, 20454>>, <<26067, 3785>>, <<26068, 3786>>, <<26069, 3787>>, <<26070, 20455>>,
       <<26071, 13282>>, <<26072, 3788>>, <<26073, 3789>>, <<26074, 3790>>, <<26075, 3791>>,
       <<26076, 3792>>, <<26077, 3793>>, <<26078, 3794>>, <<26079, 3795>>, <<26080, 14788>>,
       <<26081, 3796>>, <<26082, 11346>>, <<26083, 3797>>, <<26084, 3798>>, <<26085, 13639>>,
       <<26086, 9985>>, <<26087, 11727>>, <<26088, 16274>>, <<26089, 15937>>, <<26090, 3799>>,
       <<26091, 3800>>, <<26092, 15310>>, <<26093, 15187>>, <<26094, 20070>>, <<26095, 20071>>,
       <<26096, 20072>>, <<26097, 10947>>, <<26098, 3801>>, <<26099, 3802>>, <<26100, 3803>>,
       <<26101, 3804>>, <<26102, 13983>>, <<26103, 11961>>, <<26104, 3805>>, <<26105, 3806>>,
       <<26106, 14626>>, <<26107, 3807>>, <<26108, 3808>>, <<26109, 3809>>, <<26110, 3810>>,
       <<26111, 3811>>, <<26112, 20078>>, <<26113, 3812>>, <<26114, 9052>>, <<26115, 20076>>,
       <<26116, 3813>>, <<26117, 3814>>, <<26118, 12071>>, <<26119, 3815>>, <<26120, 3816>>,
       <<26121, 3817>>, <<26122, 20073>>, <<26123, 3818>>, <<26124, 9499>>, <<26125, 3819>>,
       <<26126, 12723>>, <<26127, 11188>>, <<26128, 3820>>, <<26129, 3821>>, <<26130, 3822>>,
       <<26131, 15541>>, <<26132, 14810>>, <<26133, 20077>>, <<26134, 3823>>, <<26135, 3824>>,
       <<26136, 3825>>, <<26137, 20074>>, <<26138, 3826>>, <<26139, 3827>>, <<26140, 3828>>,
       <<26141, 20081>>, <<26142, 3829>>, <<26143, 15145>>, <<26144, 15695>>, <<26145, 3830>>,
       <<26146, 3831>>, <<26147, 3832>>, <<26148, 3833>>, <<26149, 9812>>, <<26150, 3834>>,
       <<26151, 12669>>, <<26152, 16518>>, <<26153, 3835>>, <<26154, 3836>>, <<26155, 3837>>,
       <<26156, 3838>>, <<26157, 16105>>, <<26158, 3839>>, <<26159, 14005>>, <<26160, 3840>>,
       <<26161, 20083>>, <<26162, 3841>>, <<26163, 3842>>, <<26164, 20082>>, <<26165, 20085>>,
       <<26166, 20084>>, <<26167, 3843>>, <<26168, 3844>>, <<26169, 3845>>, <<26170, 3846>>,
       <<26171, 3847>>, <<26172, 16317>>, <<26173, 3848>>, <<26174, 14968>>, <<26175, 3849>>,
       <<26176, 3850>>, <<26177, 20089>>, <<26178, 3851>>, <<26179, 11162>>, <<26180, 3852>>,
       <<26181, 3853>>, <<26182, 3854>>, <<26183, 3855>>, <<26184, 3856>>, <<26185, 3857>>, <<26186, 3858>>,
       <<26187, 11586>>, <<26188, 13822>>, <<26189, 3859>>, <<26190, 3860>>, <<26191, 20090>>,
       <<26192, 3861>>, <<26193, 3862>>, <<26194, 13801>>, <<26195, 15010>>, <<26196, 20088>>,
       <<26197, 15912>>, <<26198, 20091>>, <<26199, 20093>>, <<26200, 3863>>, <<26201, 3864>>,
       <<26202, 14613>>, <<26203, 3865>>, <<26204, 3866>>, <<26205, 3867>>, <<26206, 3868>>,
       <<26207, 20087>>, <<26208, 3869>>, <<26209, 20092>>, <<26210, 3870>>, <<26211, 3871>>,
       <<26212, 14804>>, <<26213, 3872>>, <<26214, 11178>>, <<26215, 3873>>, <<26216, 9627>>,
       <<26217, 3874>>, <<26218, 3875>>, <<26219, 3876>>, <<26220, 3877>>, <<26221, 3878>>,
       <<26222, 13259>>, <<26223, 11702>>, <<26224, 14816>>, <<26225, 3879>>, <<26226, 3880>>,
       <<26227, 3881>>, <<26228, 13467>>, <<26229, 3882>>, <<26230, 11693>>, <<26231, 20094>>,
       <<26232, 3883>>, <<26233, 3884>>, <<26234, 16285>>, <<26235, 3885>>, <<26236, 3886>>,
       <<26237, 3887>>, <<26238, 12288>>, <<26239, 3888>>, <<26240, 3889>>, <<26241, 3890>>,
       <<26242, 15927>>, <<26243, 3891>>, <<26244, 20095>>, <<26245, 3892>>, <<26246, 3893>>,
       <<26247, 14946>>, <<26248, 3894>>, <<26249, 3895>>, <<26250, 3896>>, <<26251, 3897>>,
       <<26252, 20096>>, <<26253, 3898>>, <<26254, 3899>>, <<26255, 3900>>, <<26256, 3901>>,
       <<26257, 14044>>, <<26258, 3902>>, <<26259, 3903>>, <<26260, 3904>>, <<26261, 3905>>,
       <<26262, 13031>>, <<26263, 9047>>, <<26264, 3906>>, <<26265, 3907>>, <<26266, 3908>>,
       <<26267, 3909>>, <<26268, 3910>>, <<26269, 20098>>, <<26270, 3911>>, <<26271, 3912>>,
       <<26272, 3913>>, <<26273, 3914>>, <<26274, 3915>>, <<26275, 3916>>, <<26276, 3917>>, <<26277, 3918>>,
       <<26278, 3919>>, <<26279, 20097>>, <<26280, 22009>>, <<26281, 3920>>, <<26282, 3921>>,
       <<26283, 3922>>, <<26284, 3923>>, <<26285, 3924>>, <<26286, 12852>>, <<26287, 3925>>,
       <<26288, 3926>>, <<26289, 3927>>, <<26290, 3928>>, <<26291, 3929>>, <<26292, 9225>>, <<26293, 3930>>,
       <<26294, 3931>>, <<26295, 3932>>, <<26296, 3933>>, <<26297, 19159>>, <<26298, 3934>>,
       <<26299, 3935>>, <<26300, 3936>>, <<26301, 3937>>, <<26302, 20099>>, <<26303, 3938>>,
       <<26304, 3939>>, <<26305, 3940>>, <<26306, 3941>>, <<26307, 3942>>, <<26308, 3943>>, <<26309, 3944>>,
       <<26310, 3945>>, <<26311, 3946>>, <<26312, 3947>>, <<26313, 3948>>, <<26314, 3949>>, <<26315, 3950>>,
       <<26316, 3951>>, <<26317, 3952>>, <<26318, 3953>>, <<26319, 3954>>, <<26320, 3955>>, <<26321, 3956>>,
       <<26322, 3957>>, <<26323, 3958>>, <<26324, 3959>>, <<26325, 3960>>, <<26326, 3961>>, <<26327, 3962>>,
       <<26328, 3963>>, <<26329, 14045>>, <<26330, 3964>>, <<26331, 20100>>, <<26332, 20101>>,
       <<26333, 13262>>, <<26334, 3965>>, <<26335, 3966>>, <<26336, 3967>>, <<26337, 3968>>,
       <<26338, 3969>>, <<26339, 3970>>, <<26340, 3971>>, <<26341, 3972>>, <<26342, 20102>>,
       <<26343, 3973>>, <<26344, 3974>>, <<26345, 20103>>, <<26346, 3975>>, <<26347, 3976>>,
       <<26348, 3977>>, <<26349, 3978>>, <<26350, 3979>>, <<26351, 3980>>, <<26352, 15893>>,
       <<26353, 3981>>, <<26354, 13486>>, <<26355, 15509>>, <<26356, 10638>>, <<26357, 3982>>,
       <<26358, 3983>>, <<26359, 20080>>, <<26360, 3984>>, <<26361, 9466>>, <<26362, 3985>>,
       <<26363, 3986>>, <<26364, 12538>>, <<26365, 3987>>, <<26366, 15954>>, <<26367, 14416>>,
       <<26368, 16514>>, <<26369, 3988>>, <<26370, 3989>>, <<26371, 3990>>, <<26372, 3991>>,
       <<26373, 3992>>, <<26374, 3993>>, <<26375, 3994>>, <<26376, 15900>>, <<26377, 15724>>,
       <<26378, 20271>>, <<26379, 13099>>, <<26380, 3995>>, <<26381, 10450>>, <<26382, 3996>>,
       <<26383, 3997>>, <<26384, 20288>>, <<26385, 3998>>, <<26386, 3999>>, <<26387, 4000>>,
       <<26388, 14179>>, <<26389, 20298>>, <<26390, 4001>>, <<26391, 12108>>, <<26392, 4002>>,
       <<26393, 4003>>, <<26394, 4004>>, <<26395, 14627>>, <<26396, 4005>>, <<26397, 9611>>,
       <<26398, 4006>>, <<26399, 13264>>, <<26400, 4007>>, <<26401, 4008>>, <<26402, 4009>>,
       <<26403, 4010>>, <<26404, 4011>>, <<26405, 4012>>, <<26406, 20328>>, <<26407, 4013>>,
       <<26408, 12856>>, <<26409, 4014>>, <<26410, 14746>>, <<26411, 12835>>, <<26412, 9246>>,
       <<26413, 15959>>, <<26414, 4015>>, <<26415, 14051>>, <<26416, 4016>>, <<26417, 16322>>,
       <<26418, 4017>>, <<26419, 4018>>, <<26420, 13257>>, <<26421, 10234>>, <<26422, 4019>>,
       <<26423, 4020>>, <<26424, 4021>>, <<26425, 4022>>, <<26426, 11206>>, <<26427, 4023>>,
       <<26428, 4024>>, <<26429, 15170>>, <<26430, 4025>>, <<26431, 4026>>, <<26432, 13793>>,
       <<26433, 4027>>, <<26434, 15917>>, <<26435, 13594>>, <<26436, 4028>>, <<26437, 4029>>,
       <<26438, 10589>>, <<26439, 4030>>, <<26440, 19696>>, <<26441, 13804>>, <<26442, 4031>>,
       <<26443, 4032>>, <<26444, 19693>>, <<26445, 4033>>, <<26446, 12144>>, <<26447, 15157>>,
       <<26448, 9442>>, <<26449, 9855>>, <<26450, 4034>>, <<26451, 19694>>, <<26452, 4035>>,
       <<26453, 4036>>, <<26454, 16096>>, <<26455, 4037>>, <<26456, 4038>>, <<26457, 4039>>,
       <<26458, 4040>>, <<26459, 4041>>, <<26460, 10203>>, <<26461, 4042>>, <<26462, 19695>>,
       <<26463, 14054>>, <<26464, 10606>>, <<26465, 14431>>, <<26466, 4043>>, <<26467, 4044>>,
       <<26468, 4045>>, <<26469, 12086>>, <<26470, 4046>>, <<26471, 4047>>, <<26472, 15374>>,
       <<26473, 19697>>, <<26474, 19700>>, <<26475, 4048>>, <<26476, 4049>>, <<26477, 10954>>,
       <<26478, 4050>>, <<26479, 9229>>, <<26480, 11556>>, <<26481, 4051>>, <<26482, 20075>>,
       <<26483, 19701>>, <<26484, 4052>>, <<26485, 19704>>, <<26486, 4053>>, <<26487, 19709>>,
       <<26488, 4054>>, <<26489, 4055>>, <<26490, 4056>>, <<26491, 4057>>, <<26492, 19710>>,
       <<26493, 4058>>, <<26494, 14197>>, <<26495, 9095>>, <<26496, 4059>>, <<26497, 11317>>,
       <<26498, 4060>>, <<26499, 4061>>, <<26500, 10761>>, <<26501, 4062>>, <<26502, 4063>>,
       <<26503, 19699>>, <<26504, 4064>>, <<26505, 14623>>, <<26506, 4065>>, <<26507, 19708>>,
       <<26508, 4066>>, <<26509, 4067>>, <<26510, 4068>>, <<26511, 4069>>, <<26512, 14812>>,
       <<26513, 4070>>, <<26514, 4071>>, <<26515, 4072>>, <<26516, 4073>>, <<26517, 16133>>,
       <<26518, 4074>>, <<26519, 12310>>, <<26520, 19702>>, <<26521, 4075>>, <<26522, 12658>>,
       <<26523, 4076>>, <<26524, 10827>>, <<26525, 16252>>, <<26526, 19706>>, <<26527, 4077>>,
       <<26528, 4078>>, <<26529, 4079>>, <<26530, 14030>>, <<26531, 15936>>, <<26532, 4080>>,
       <<26533, 19698>>, <<26534, 4081>>, <<26535, 19703>>, <<26536, 19705>>, <<26537, 4082>>,
       <<26538, 13421>>, <<26539, 10423>>, <<26540, 4083>>, <<26541, 19707>>, <<26542, 4084>>,
       <<26543, 11937>>, <<26544, 19716>>, <<26545, 4085>>, <<26546, 4086>>, <<26547, 19721>>,
       <<26548, 4087>>, <<26549, 19719>>, <<26550, 11366>>, <<26551, 11353>>, <<26552, 19725>>,
       <<26553, 4088>>, <<26554, 4089>>, <<26555, 4090>>, <<26556, 4091>>, <<26557, 4092>>, <<26558, 4093>>,
       <<26559, 4094>>, <<26560, 4095>>, <<26561, 19728>>, <<26562, 4096>>, <<26563, 19724>>,
       <<26564, 9306>>, <<26565, 4097>>, <<26566, 4098>>, <<26567, 4099>>, <<26568, 4100>>, <<26569, 4101>>,
       <<26570, 4102>>, <<26571, 4103>>, <<26572, 4104>>, <<26573, 4105>>, <<26574, 4106>>, <<26575, 9082>>,
       <<26576, 12845>>, <<26577, 10590>>, <<26578, 13272>>, <<26579, 13616>>, <<26580, 13651>>,
       <<26581, 4107>>, <<26582, 4108>>, <<26583, 4109>>, <<26584, 19713>>, <<26585, 19718>>,
       <<26586, 19720>>, <<26587, 4110>>, <<26588, 10817>>, <<26589, 19722>>, <<26590, 16521>>,
       <<26591, 4111>>, <<26592, 12917>>, <<26593, 4112>>, <<26594, 19726>>, <<26595, 4113>>,
       <<26596, 4114>>, <<26597, 9479>>, <<26598, 4115>>, <<26599, 4116>>, <<26600, 4117>>,
       <<26601, 19715>>, <<26602, 4118>>, <<26603, 4119>>, <<26604, 11383>>, <<26605, 4120>>,
       <<26606, 4121>>, <<26607, 11910>>, <<26608, 19711>>, <<26609, 16335>>, <<26610, 4122>>,
       <<26611, 12344>>, <<26612, 9487>>, <<26613, 4123>>, <<26614, 4124>>, <<26615, 4125>>,
       <<26616, 4126>>, <<26617, 4127>>, <<26618, 4128>>, <<26619, 4129>>, <<26620, 4130>>,
       <<26621, 19729>>, <<26622, 4131>>, <<26623, 13999>>, <<26624, 19723>>, <<26625, 4132>>,
       <<26626, 4133>>, <<26627, 4134>>, <<26628, 4135>>, <<26629, 16060>>, <<26630, 4136>>,
       <<26631, 9290>>, <<26632, 16083>>, <<26633, 19712>>, <<26634, 19714>>, <<26635, 10182>>,
       <<26636, 19717>>, <<26637, 4137>>, <<26638, 19727>>, <<26639, 12090>>, <<26640, 4138>>,
       <<26641, 14053>>, <<26642, 4139>>, <<26643, 14164>>, <<26644, 4140>>, <<26645, 4141>>,
       <<26646, 13266>>, <<26647, 12151>>, <<26648, 4142>>, <<26649, 4143>>, <<26650, 4144>>,
       <<26651, 4145>>, <<26652, 4146>>, <<26653, 19739>>, <<26654, 4147>>, <<26655, 4148>>,
       <<26656, 4149>>, <<26657, 15109>>, <<26658, 4150>>, <<26659, 4151>>, <<26660, 4152>>,
       <<26661, 4153>>, <<26662, 4154>>, <<26663, 4155>>, <<26664, 4156>>, <<26665, 19748>>,
       <<26666, 16320>>, <<26667, 4157>>, <<26668, 4158>>, <<26669, 4159>>, <<26670, 4160>>,
       <<26671, 4161>>, <<26672, 4162>>, <<26673, 4163>>, <<26674, 19730>>, <<26675, 19731>>,
       <<26676, 4164>>, <<26677, 4165>>, <<26678, 4166>>, <<26679, 15385>>, <<26680, 10969>>,
       <<26681, 10635>>, <<26682, 4167>>, <<26683, 4168>>, <<26684, 10627>>, <<26685, 15918>>,
       <<26686, 19745>>, <<26687, 4169>>, <<26688, 19744>>, <<26689, 19742>>, <<26690, 10816>>,
       <<26691, 14396>>, <<26692, 19736>>, <<26693, 14732>>, <<26694, 11958>>, <<26695, 4170>>,
       <<26696, 9050>>, <<26697, 19747>>, <<26698, 19746>>, <<26699, 4171>>, <<26700, 16468>>,
       <<26701, 4172>>, <<26702, 19734>>, <<26703, 4173>>, <<26704, 14545>>, <<26705, 13779>>,
       <<26706, 4174>>, <<26707, 11140>>, <<26708, 11555>>, <<26709, 19740>>, <<26710, 4175>>,
       <<26711, 4176>>, <<26712, 4177>>, <<26713, 4178>>, <<26714, 4179>>, <<26715, 4180>>, <<26716, 4181>>,
       <<26717, 4182>>, <<26718, 4183>>, <<26719, 4184>>, <<26720, 19732>>, <<26721, 19733>>,
       <<26722, 19735>>, <<26723, 9997>>, <<26724, 19737>>, <<26725, 13433>>, <<26726, 19741>>,
       <<26727, 19743>>, <<26728, 11512>>, <<26729, 16450>>, <<26730, 4185>>, <<26731, 19754>>,
       <<26732, 4186>>, <<26733, 4187>>, <<26734, 4188>>, <<26735, 4189>>, <<26736, 4190>>, <<26737, 4191>>,
       <<26738, 4192>>, <<26739, 4193>>, <<26740, 19751>>, <<26741, 4194>>, <<26742, 14552>>,
       <<26743, 19752>>, <<26744, 4195>>, <<26745, 4196>>, <<26746, 4197>>, <<26747, 4198>>,
       <<26748, 4199>>, <<26749, 4200>>, <<26750, 4201>>, <<26751, 4202>>, <<26752, 4203>>,
       <<26753, 12282>>, <<26754, 4204>>, <<26755, 19738>>, <<26756, 4205>>, <<26757, 12659>>,
       <<26758, 9106>>, <<26759, 4206>>, <<26760, 4207>>, <<26761, 4208>>, <<26762, 4209>>, <<26763, 4210>>,
       <<26764, 4211>>, <<26765, 4212>>, <<26766, 4213>>, <<26767, 19750>>, <<26768, 4214>>,
       <<26769, 4215>>, <<26770, 4216>>, <<26771, 19753>>, <<26772, 4217>>, <<26773, 4218>>,
       <<26774, 4219>>, <<26775, 10739>>, <<26776, 4220>>, <<26777, 4221>>, <<26778, 4222>>,
       <<26779, 4223>>, <<26780, 4224>>, <<26781, 4225>>, <<26782, 4226>>, <<26783, 4227>>, <<26784, 4228>>,
       <<26785, 4229>>, <<26786, 13826>>, <<26787, 4230>>, <<26788, 4231>>, <<26789, 4232>>,
       <<26790, 12682>>, <<26791, 14790>>, <<26792, 12136>>, <<26793, 4233>>, <<26794, 4234>>,
       <<26795, 4235>>, <<26796, 4236>>, <<26797, 14239>>, <<26798, 4237>>, <<26799, 14407>>,
       <<26800, 15127>>, <<26801, 4238>>, <<26802, 4239>>, <<26803, 14031>>, <<26804, 4240>>,
       <<26805, 19749>>, <<26806, 4241>>, <<26807, 4242>>, <<26808, 4243>>, <<26809, 4244>>,
       <<26810, 4245>>, <<26811, 4246>>, <<26812, 4247>>, <<26813, 4248>>, <<26814, 4249>>, <<26815, 4250>>,
       <<26816, 11382>>, <<26817, 4251>>, <<26818, 19755>>, <<26819, 4252>>, <<26820, 4253>>,
       <<26821, 4254>>, <<26822, 4255>>, <<26823, 4256>>, <<26824, 4257>>, <<26825, 12698>>,
       <<26826, 4258>>, <<26827, 13275>>, <<26828, 4259>>, <<26829, 10823>>, <<26830, 4260>>,
       <<26831, 4261>>, <<26832, 4262>>, <<26833, 4263>>, <<26834, 9110>>, <<26835, 4264>>, <<26836, 4265>>,
       <<26837, 16492>>, <<26838, 4266>>, <<26839, 4267>>, <<26840, 11318>>, <<26841, 4268>>,
       <<26842, 13095>>, <<26843, 4269>>, <<26844, 4270>>, <<26845, 4271>>, <<26846, 4272>>,
       <<26847, 4273>>, <<26848, 14382>>, <<26849, 4274>>, <<26850, 4275>>, <<26851, 19862>>,
       <<26852, 4276>>, <<26853, 4277>>, <<26854, 4278>>, <<26855, 4279>>, <<26856, 4280>>, <<26857, 4281>>,
       <<26858, 4282>>, <<26859, 4283>>, <<26860, 4284>>, <<26861, 4285>>, <<26862, 13789>>,
       <<26863, 4286>>, <<26864, 19858>>, <<26865, 12132>>, <<26866, 4287>>, <<26867, 4288>>,
       <<26868, 4289>>, <<26869, 11911>>, <<26870, 4290>>, <<26871, 4291>>, <<26872, 4292>>,
       <<26873, 19760>>, <<26874, 10791>>, <<26875, 4293>>, <<26876, 19757>>, <<26877, 4294>>,
       <<26878, 4295>>, <<26879, 4296>>, <<26880, 4297>>, <<26881, 19860>>, <<26882, 4298>>,
       <<26883, 4299>>, <<26884, 4300>>, <<26885, 15532>>, <<26886, 4301>>, <<26887, 4302>>,
       <<26888, 4303>>, <<26889, 4304>>, <<26890, 4305>>, <<26891, 19859>>, <<26892, 4306>>,
       <<26893, 16264>>, <<26894, 16457>>, <<26895, 4307>>, <<26896, 19863>>, <<26897, 4308>>,
       <<26898, 11519>>, <<26899, 4309>>, <<26900, 4310>>, <<26901, 4311>>, <<26902, 4312>>,
       <<26903, 4313>>, <<26904, 4314>>, <<26905, 4315>>, <<26906, 4316>>, <<26907, 4317>>, <<26908, 4318>>,
       <<26909, 4319>>, <<26910, 4320>>, <<26911, 19758>>, <<26912, 19759>>, <<26913, 4321>>,
       <<26914, 4322>>, <<26915, 4323>>, <<26916, 19857>>, <<26917, 4324>>, <<26918, 4325>>,
       <<26919, 4326>>, <<26920, 4327>>, <<26921, 4328>>, <<26922, 4329>>, <<26923, 4330>>, <<26924, 4331>>,
       <<26925, 14590>>, <<26926, 4332>>, <<26927, 4333>>, <<26928, 15498>>, <<26929, 4334>>,
       <<26930, 4335>>, <<26931, 4336>>, <<26932, 19874>>, <<26933, 4337>>, <<26934, 4338>>,
       <<26935, 4339>>, <<26936, 4340>>, <<26937, 19865>>, <<26938, 4341>>, <<26939, 4342>>,
       <<26940, 4343>>, <<26941, 9796>>, <<26942, 4344>>, <<26943, 9813>>, <<26944, 4345>>, <<26945, 4346>>,
       <<26946, 19867>>, <<26947, 4347>>, <<26948, 4348>>, <<26949, 4349>>, <<26950, 4350>>,
       <<26951, 4351>>, <<26952, 4352>>, <<26953, 4353>>, <<26954, 4354>>, <<26955, 4355>>, <<26956, 4356>>,
       <<26957, 4357>>, <<26958, 4358>>, <<26959, 4359>>, <<26960, 4360>>, <<26961, 4361>>, <<26962, 4362>>,
       <<26963, 4363>>, <<26964, 15114>>, <<26965, 4364>>, <<26966, 4365>>, <<26967, 19861>>,
       <<26968, 4366>>, <<26969, 4367>>, <<26970, 9690>>, <<26971, 4368>>, <<26972, 4369>>,
       <<26973, 19868>>, <<26974, 12133>>, <<26975, 4370>>, <<26976, 19866>>, <<26977, 4371>>,
       <<26978, 4372>>, <<26979, 19881>>, <<26980, 4373>>, <<26981, 4374>>, <<26982, 19880>>,
       <<26983, 4375>>, <<26984, 4376>>, <<26985, 4377>>, <<26986, 4378>>, <<26987, 19870>>,
       <<26988, 4379>>, <<26989, 4380>>, <<26990, 19756>>, <<26991, 4381>>, <<26992, 4382>>,
       <<26993, 19864>>, <<26994, 4383>>, <<26995, 4384>>, <<26996, 4385>>, <<26997, 4386>>,
       <<26998, 4387>>, <<26999, 11888>>, <<27000, 19873>>, <<27001, 19882>>, <<27002, 4388>>,
       <<27003, 4389>>, <<27004, 12451>>, <<27005, 4390>>, <<27006, 4391>>, <<27007, 4392>>,
       <<27008, 19871>>, <<27009, 4393>>, <<27010, 10583>>, <<27011, 4394>>, <<27012, 19869>>,
       <<27013, 4395>>, <<27014, 15736>>, <<27015, 19876>>, <<27016, 19877>>, <<27017, 19879>>,
       <<27018, 4396>>, <<27019, 4397>>, <<27020, 4398>>, <<27021, 19895>>, <<27022, 4399>>,
       <<27023, 4400>>, <<27024, 4401>>, <<27025, 4402>>, <<27026, 4403>>, <<27027, 4404>>,
       <<27028, 12104>>, <<27029, 19893>>, <<27030, 4405>>, <<27031, 4406>>, <<27032, 19872>>,
       <<27033, 4407>>, <<27034, 4408>>, <<27035, 19883>>, <<27036, 9107>>, <<27037, 4409>>,
       <<27038, 4410>>, <<27039, 4411>>, <<27040, 4412>>, <<27041, 4413>>, <<27042, 4414>>, <<27043, 4415>>,
       <<27044, 4416>>, <<27045, 4417>>, <<27046, 4418>>, <<27047, 19884>>, <<27048, 16061>>,
       <<27049, 4419>>, <<27050, 4420>>, <<27051, 19886>>, <<27052, 4421>>, <<27053, 19887>>,
       <<27054, 4422>>, <<27055, 4423>>, <<27056, 4424>>, <<27057, 19889>>, <<27058, 4425>>,
       <<27059, 4426>>, <<27060, 12337>>, <<27061, 4427>>, <<27062, 4428>>, <<27063, 13608>>,
       <<27064, 4429>>, <<27065, 4430>>, <<27066, 4431>>, <<27067, 19885>>, <<27068, 4432>>,
       <<27069, 4433>>, <<27070, 4434>>, <<27071, 4435>>, <<27072, 4436>>, <<27073, 19890>>,
       <<27074, 4437>>, <<27075, 4438>>, <<27076, 4439>>, <<27077, 4440>>, <<27078, 4441>>, <<27079, 4442>>,
       <<27080, 4443>>, <<27081, 4444>>, <<27082, 19891>>, <<27083, 4445>>, <<27084, 19875>>,
       <<27085, 4446>>, <<27086, 19878>>, <<27087, 4447>>, <<27088, 11133>>, <<27089, 4448>>,
       <<27090, 4449>>, <<27091, 4450>>, <<27092, 19888>>, <<27093, 4451>>, <<27094, 4452>>,
       <<27095, 4453>>, <<27096, 4454>>, <<27097, 4455>>, <<27098, 4456>>, <<27099, 11393>>,
       <<27100, 4457>>, <<27101, 4458>>, <<27102, 4459>>, <<27103, 19892>>, <<27104, 19894>>,
       <<27105, 4460>>, <<27106, 4461>>, <<27107, 4462>>, <<27108, 4463>>, <<27109, 4464>>, <<27110, 4465>>,
       <<27111, 4466>>, <<27112, 4467>>, <<27113, 4468>>, <<27114, 4469>>, <<27115, 4470>>, <<27116, 4471>>,
       <<27117, 19898>>, <<27118, 4472>>, <<27119, 4473>>, <<27120, 4474>>, <<27121, 4475>>,
       <<27122, 19902>>, <<27123, 4476>>, <<27124, 4477>>, <<27125, 4478>>, <<27126, 4479>>,
       <<27127, 4480>>, <<27128, 4481>>, <<27129, 4482>>, <<27130, 4483>>, <<27131, 4484>>, <<27132, 4485>>,
       <<27133, 9465>>, <<27134, 4486>>, <<27135, 19896>>, <<27136, 4487>>, <<27137, 4488>>,
       <<27138, 4489>>, <<27139, 4490>>, <<27140, 4491>>, <<27141, 4492>>, <<27142, 4493>>, <<27143, 4494>>,
       <<27144, 4495>>, <<27145, 4496>>, <<27146, 10370>>, <<27147, 4497>>, <<27148, 4498>>,
       <<27149, 4499>>, <<27150, 4500>>, <<27151, 4501>>, <<27152, 4502>>, <<27153, 4503>>, <<27154, 4504>>,
       <<27155, 4505>>, <<27156, 4506>>, <<27157, 4507>>, <<27158, 4508>>, <<27159, 19899>>,
       <<27160, 19900>>, <<27161, 4509>>, <<27162, 4510>>, <<27163, 4511>>, <<27164, 4512>>,
       <<27165, 4513>>, <<27166, 4514>>, <<27167, 16089>>, <<27168, 4515>>, <<27169, 12829>>,
       <<27170, 4516>>, <<27171, 4517>>, <<27172, 4518>>, <<27173, 4519>>, <<27174, 4520>>, <<27175, 4521>>,
       <<27176, 19912>>, <<27177, 4522>>, <<27178, 10991>>, <<27179, 4523>>, <<27180, 4524>>,
       <<27181, 4525>>, <<27182, 4526>>, <<27183, 19897>>, <<27184, 4527>>, <<27185, 15679>>,
       <<27186, 4528>>, <<27187, 4529>>, <<27188, 4530>>, <<27189, 19908>>, <<27190, 4531>>,
       <<27191, 4532>>, <<27192, 4533>>, <<27193, 4534>>, <<27194, 4535>>, <<27195, 4536>>, <<27196, 4537>>,
       <<27197, 19911>>, <<27198, 19904>>, <<27199, 4538>>, <<27200, 4539>>, <<27201, 4540>>,
       <<27202, 4541>>, <<27203, 4542>>, <<27204, 19903>>, <<27205, 4543>>, <<27206, 4544>>,
       <<27207, 13429>>, <<27208, 4545>>, <<27209, 4546>>, <<27210, 4547>>, <<27211, 4548>>,
       <<27212, 4549>>, <<27213, 4550>>, <<27214, 4551>>, <<27215, 4552>>, <<27216, 19906>>,
       <<27217, 4553>>, <<27218, 4554>>, <<27219, 4555>>, <<27220, 4556>>, <<27221, 4557>>, <<27222, 4558>>,
       <<27223, 4559>>, <<27224, 19913>>, <<27225, 9636>>, <<27226, 4560>>, <<27227, 19907>>,
       <<27228, 4561>>, <<27229, 4562>>, <<27230, 4563>>, <<27231, 4564>>, <<27232, 4565>>,
       <<27233, 14996>>, <<27234, 4566>>, <<27235, 4567>>, <<27236, 4568>>, <<27237, 19901>>,
       <<27238, 4569>>, <<27239, 4570>>, <<27240, 4571>>, <<27241, 4572>>, <<27242, 4573>>, <<27243, 4574>>,
       <<27244, 4575>>, <<27245, 4576>>, <<27246, 4577>>, <<27247, 4578>>, <<27248, 4579>>, <<27249, 9683>>,
       <<27250, 4580>>, <<27251, 4581>>, <<27252, 4582>>, <<27253, 4583>>, <<27254, 4584>>, <<27255, 4585>>,
       <<27256, 4586>>, <<27257, 19910>>, <<27258, 4587>>, <<27259, 4588>>, <<27260, 19914>>,
       <<27261, 4589>>, <<27262, 4590>>, <<27263, 4591>>, <<27264, 14366>>, <<27265, 4592>>,
       <<27266, 4593>>, <<27267, 4594>>, <<27268, 14929>>, <<27269, 4595>>, <<27270, 4596>>,
       <<27271, 4597>>, <<27272, 4598>>, <<27273, 4599>>, <<27274, 4600>>, <<27275, 4601>>, <<27276, 4602>>,
       <<27277, 4603>>, <<27278, 19909>>, <<27279, 4604>>, <<27280, 19916>>, <<27281, 19915>>,
       <<27282, 4605>>, <<27283, 4606>>, <<27284, 4607>>, <<27285, 4608>>, <<27286, 4609>>,
       <<27287, 19918>>, <<27288, 4610>>, <<27289, 4611>>, <<27290, 4612>>, <<27291, 4613>>,
       <<27292, 4614>>, <<27293, 4615>>, <<27294, 4616>>, <<27295, 4617>>, <<27296, 19905>>,
       <<27297, 4618>>, <<27298, 4619>>, <<27299, 4620>>, <<27300, 4621>>, <<27301, 4622>>, <<27302, 4623>>,
       <<27303, 4624>>, <<27304, 4625>>, <<27305, 19917>>, <<27306, 4626>>, <<27307, 19919>>,
       <<27308, 12678>>, <<27309, 4627>>, <<27310, 4628>>, <<27311, 4629>>, <<27312, 4630>>,
       <<27313, 4631>>, <<27314, 4632>>, <<27315, 4633>>, <<27316, 4634>>, <<27317, 4635>>, <<27318, 4636>>,
       <<27319, 4637>>, <<27320, 4638>>, <<27321, 4639>>, <<27322, 4640>>, <<27323, 4641>>, <<27324, 4642>>,
       <<27325, 4643>>, <<27326, 4644>>, <<27327, 4645>>, <<27328, 4646>>, <<27329, 4647>>, <<27330, 4648>>,
       <<27331, 4649>>, <<27332, 4650>>, <<27333, 4651>>, <<27334, 4652>>, <<27335, 4653>>, <<27336, 4654>>,
       <<27337, 4655>>, <<27338, 4656>>, <<27339, 4657>>, <<27340, 4658>>, <<27341, 4659>>, <<27342, 4660>>,
       <<27343, 4661>>, <<27344, 4662>>, <<27345, 4663>>, <<27346, 4664>>, <<27347, 4665>>, <<27348, 4666>>,
       <<27349, 4667>>, <<27350, 4668>>, <<27351, 4669>>, <<27352, 4670>>, <<27353, 4671>>, <<27354, 4672>>,
       <<27355, 4673>>, <<27356, 4674>>, <<27357, 4675>>, <<27358, 4676>>, <<27359, 4677>>, <<27360, 4678>>,
       <<27361, 4679>>, <<27362, 4680>>, <<27363, 4681>>, <<27364, 4682>>, <<27365, 4683>>, <<27366, 4684>>,
       <<27367, 4685>>, <<27368, 4686>>, <<27369, 4687>>, <<27370, 4688>>, <<27371, 4689>>, <<27372, 4690>>,
       <<27373, 4691>>, <<27374, 4692>>, <<27375, 4693>>, <<27376, 4694>>, <<27377, 4695>>, <<27378, 4696>>,
       <<27379, 4697>>, <<27380, 4698>>, <<27381, 4699>>, <<27382, 4700>>, <<27383, 4701>>, <<27384, 4702>>,
       <<27385, 4703>>, <<27386, 4704>>, <<27387, 4705>>, <<27388, 4706>>, <<27389, 4707>>, <<27390, 4708>>,
       <<27391, 4709>>, <<27392, 4710>>, <<27393, 4711>>, <<27394, 4712>>, <<27395, 4713>>, <<27396, 4714>>,
       <<27397, 4715>>, <<27398, 4716>>, <<27399, 4717>>, <<27400, 4718>>, <<27401, 4719>>, <<27402, 4720>>,
       <<27403, 4721>>, <<27404, 4722>>, <<27405, 4723>>, <<27406, 4724>>, <<27407, 4725>>, <<27408, 4726>>,
       <<27409, 4727>>, <<27410, 4728>>, <<27411, 4729>>, <<27412, 4730>>, <<27413, 4731>>, <<27414, 4732>>,
       <<27415, 4733>>, <<27416, 4734>>, <<27417, 4735>>, <<27418, 4736>>, <<27419, 4737>>, <<27420, 4738>>,
       <<27421, 4739>>, <<27422, 4740>>, <<27423, 4741>>, <<27424, 13419>>, <<27425, 9832>>,
       <<27426, 11138>>, <<27427, 15138>>, <<27428, 20429>>, <<27429, 4742>>, <<27430, 4743>>,
       <<27431, 13039>>, <<27432, 4744>>, <<27433, 4745>>, <<27434, 4746>>, <<27435, 4747>>,
       <<27436, 4748>>, <<27437, 4749>>, <<27438, 4750>>, <<27439, 4751>>, <<27440, 4752>>, <<27441, 4753>>,
       <<27442, 15767>>, <<27443, 4754>>, <<27444, 4755>>, <<27445, 4756>>, <<27446, 4757>>,
       <<27447, 20430>>, <<27448, 4758>>, <<27449, 20431>>, <<27450, 13265>>, <<27451, 4759>>,
       <<27452, 4760>>, <<27453, 4761>>, <<27454, 11954>>, <<27455, 4762>>, <<27456, 4763>>,
       <<27457, 4764>>, <<27458, 4765>>, <<27459, 20432>>, <<27460, 4766>>, <<27461, 4767>>,
       <<27462, 20433>>, <<27463, 15116>>, <<27464, 4768>>, <<27465, 13420>>, <<27466, 4769>>,
       <<27467, 4770>>, <<27468, 10618>>, <<27469, 4771>>, <<27470, 4772>>, <<27471, 4773>>,
       <<27472, 4774>>, <<27473, 4775>>, <<27474, 4776>>, <<27475, 4777>>, <<27476, 4778>>, <<27477, 4779>>,
       <<27478, 4780>>, <<27479, 4781>>, <<27480, 4782>>, <<27481, 20434>>, <<27482, 4783>>,
       <<27483, 4784>>, <<27484, 4785>>, <<27485, 4786>>, <<27486, 4787>>, <<27487, 4788>>, <<27488, 4789>>,
       <<27489, 4790>>, <<27490, 16271>>, <<27491, 16149>>, <<27492, 9829>>, <<27493, 9435>>,
       <<27494, 14794>>, <<27495, 13277>>, <<27496, 4791>>, <<27497, 4792>>, <<27498, 14601>>,
       <<27499, 4793>>, <<27500, 4794>>, <<27501, 4795>>, <<27502, 4796>>, <<27503, 4797>>, <<27504, 4798>>,
       <<27505, 4799>>, <<27506, 4800>>, <<27507, 4801>>, <<27508, 4802>>, <<27509, 4803>>, <<27510, 4804>>,
       <<27511, 4805>>, <<27512, 4806>>, <<27513, 9871>>, <<27514, 4807>>, <<27515, 14188>>,
       <<27516, 11369>>, <<27517, 4808>>, <<27518, 4809>>, <<27519, 4810>>, <<27520, 4811>>,
       <<27521, 19922>>, <<27522, 19923>>, <<27523, 15370>>, <<27524, 19925>>, <<27525, 4812>>,
       <<27526, 9875>>, <<27527, 19924>>, <<27528, 4813>>, <<27529, 15315>>, <<27530, 14032>>,
       <<27531, 9454>>, <<27532, 4814>>, <<27533, 19928>>, <<27534, 4815>>, <<27535, 4816>>,
       <<27536, 4817>>, <<27537, 4818>>, <<27538, 19926>>, <<27539, 19927>>, <<27540, 4819>>,
       <<27541, 4820>>, <<27542, 16265>>, <<27543, 4821>>, <<27544, 4822>>, <<27545, 4823>>,
       <<27546, 19929>>, <<27547, 19930>>, <<27548, 4824>>, <<27549, 4825>>, <<27550, 4826>>,
       <<27551, 4827>>, <<27552, 4828>>, <<27553, 19931>>, <<27554, 4829>>, <<27555, 4830>>,
       <<27556, 4831>>, <<27557, 4832>>, <<27558, 4833>>, <<27559, 4834>>, <<27560, 4835>>, <<27561, 4836>>,
       <<27562, 19932>>, <<27563, 4837>>, <<27564, 4838>>, <<27565, 4839>>, <<27566, 4840>>,
       <<27567, 4841>>, <<27568, 4842>>, <<27569, 4843>>, <<27570, 4844>>, <<27571, 20441>>,
       <<27572, 13041>>, <<27573, 10212>>, <<27574, 4845>>, <<27575, 15569>>, <<27576, 4846>>,
       <<27577, 4847>>, <<27578, 4848>>, <<27579, 4849>>, <<27580, 4850>>, <<27581, 4851>>, <<27582, 4852>>,
       <<27583, 10054>>, <<27584, 4853>>, <<27585, 11173>>, <<27586, 20443>>, <<27587, 4854>>,
       <<27588, 4855>>, <<27589, 15553>>, <<27590, 4856>>, <<27591, 4857>>, <<27592, 4858>>,
       <<27593, 4859>>, <<27594, 4860>>, <<27595, 14793>>, <<27596, 4861>>, <<27597, 12850>>,
       <<27598, 4862>>, <<27599, 12667>>, <<27600, 4863>>, <<27601, 4864>>, <<27602, 10196>>,
       <<27603, 16651>>, <<27604, 9256>>, <<27605, 9263>>, <<27606, 9265>>, <<27607, 13110>>,
       <<27608, 4865>>, <<27609, 9264>>, <<27610, 4866>>, <<27611, 12647>>, <<27612, 4867>>,
       <<27613, 4868>>, <<27614, 4869>>, <<27615, 4870>>, <<27616, 4871>>, <<27617, 16073>>,
       <<27618, 4872>>, <<27619, 4873>>, <<27620, 4874>>, <<27621, 4875>>, <<27622, 4876>>, <<27623, 4877>>,
       <<27624, 4878>>, <<27625, 4879>>, <<27626, 20240>>, <<27627, 10959>>, <<27628, 4880>>,
       <<27629, 4881>>, <<27630, 4882>>, <<27631, 14372>>, <<27632, 4883>>, <<27633, 4884>>,
       <<27634, 4885>>, <<27635, 20241>>, <<27636, 4886>>, <<27637, 20243>>, <<27638, 4887>>,
       <<27639, 4888>>, <<27640, 4889>>, <<27641, 20244>>, <<27642, 4890>>, <<27643, 4891>>,
       <<27644, 4892>>, <<27645, 20242>>, <<27646, 4893>>, <<27647, 4894>>, <<27648, 4895>>,
       <<27649, 4896>>, <<27650, 4897>>, <<27651, 4898>>, <<27652, 4899>>, <<27653, 20245>>,
       <<27654, 20247>>, <<27655, 20246>>, <<27656, 4900>>, <<27657, 4901>>, <<27658, 4902>>,
       <<27659, 4903>>, <<27660, 4904>>, <<27661, 20248>>, <<27662, 4905>>, <<27663, 14013>>,
       <<27664, 16647>>, <<27665, 12717>>, <<27666, 4906>>, <<27667, 12641>>, <<27668, 13294>>,
       <<27669, 20249>>, <<27670, 12868>>, <<27671, 4907>>, <<27672, 20250>>, <<27673, 20251>>,
       <<27674, 20252>>, <<27675, 10409>>, <<27676, 4908>>, <<27677, 4909>>, <<27678, 4910>>,
       <<27679, 10446>>, <<27680, 4911>>, <<27681, 20253>>, <<27682, 13462>>, <<27683, 4912>>,
       <<27684, 20255>>, <<27685, 4913>>, <<27686, 10930>>, <<27687, 15381>>, <<27688, 9043>>,
       <<27689, 20254>>, <<27690, 20256>>, <<27691, 4914>>, <<27692, 4915>>, <<27693, 4916>>,
       <<27694, 9986>>, <<27695, 12486>>, <<27696, 13468>>, <<27697, 4917>>, <<27698, 20257>>,
       <<27699, 4918>>, <<27700, 14170>>, <<27701, 18779>>, <<27702, 4919>>, <<27703, 4920>>,
       <<27704, 15708>>, <<27705, 4921>>, <<27706, 4922>>, <<27707, 4923>>, <<27708, 4924>>,
       <<27709, 16875>>, <<27710, 4925>>, <<27711, 4926>>, <<27712, 14537>>, <<27713, 16259>>,
       <<27714, 13479>>, <<27715, 4927>>, <<27716, 4928>>, <<27717, 4929>>, <<27718, 16880>>,
       <<27719, 11183>>, <<27720, 4930>>, <<27721, 10952>>, <<27722, 18782>>, <<27723, 4931>>,
       <<27724, 4932>>, <<27725, 4933>>, <<27726, 4934>>, <<27727, 4935>>, <<27728, 14927>>,
       <<27729, 4936>>, <<27730, 4937>>, <<27731, 4938>>, <<27732, 18780>>, <<27733, 13815>>,
       <<27734, 4939>>, <<27735, 10951>>, <<27736, 4940>>, <<27737, 4941>>, <<27738, 4942>>,
       <<27739, 15316>>, <<27740, 18781>>, <<27741, 13660>>, <<27742, 10751>>, <<27743, 11509>>,
       <<27744, 9652>>, <<27745, 14785>>, <<27746, 4943>>, <<27747, 4944>>, <<27748, 14378>>,
       <<27749, 4945>>, <<27750, 4946>>, <<27751, 4947>>, <<27752, 18788>>, <<27753, 18789>>,
       <<27754, 14620>>, <<27755, 4948>>, <<27756, 4949>>, <<27757, 4950>>, <<27758, 4951>>,
       <<27759, 4952>>, <<27760, 14359>>, <<27761, 4953>>, <<27762, 11325>>, <<27763, 4954>>,
       <<27764, 18790>>, <<27765, 4955>>, <<27766, 18791>>, <<27767, 4956>>, <<27768, 4957>>,
       <<27769, 15164>>, <<27770, 4958>>, <<27771, 4959>>, <<27772, 4960>>, <<27773, 13297>>,
       <<27774, 10414>>, <<27775, 4961>>, <<27776, 4962>>, <<27777, 13459>>, <<27778, 15528>>,
       <<27779, 14780>>, <<27780, 4963>>, <<27781, 18784>>, <<27782, 18792>>, <<27783, 4964>>,
       <<27784, 13858>>, <<27785, 9629>>, <<27786, 4965>>, <<27787, 4966>>, <<27788, 18787>>,
       <<27789, 4967>>, <<27790, 4968>>, <<27791, 13273>>, <<27792, 18785>>, <<27793, 4969>>,
       <<27794, 4970>>, <<27795, 20635>>, <<27796, 18786>>, <<27797, 4971>>, <<27798, 4972>>,
       <<27799, 4973>>, <<27800, 4974>>, <<27801, 13795>>, <<27802, 4975>>, <<27803, 13086>>,
       <<27804, 4976>>, <<27805, 4977>>, <<27806, 4978>>, <<27807, 10757>>, <<27808, 4979>>,
       <<27809, 12663>>, <<27810, 4980>>, <<27811, 18783>>, <<27812, 13045>>, <<27813, 12260>>,
       <<27814, 12503>>, <<27815, 9461>>, <<27816, 4981>>, <<27817, 18793>>, <<27818, 11122>>,
       <<27819, 12839>>, <<27820, 4982>>, <<27821, 18796>>, <<27822, 11744>>, <<27823, 4983>>,
       <<27824, 4984>>, <<27825, 18807>>, <<27826, 18801>>, <<27827, 10977>>, <<27828, 4985>>,
       <<27829, 4986>>, <<27830, 4987>>, <<27831, 4988>>, <<27832, 10404>>, <<27833, 15721>>,
       <<27834, 4989>>, <<27835, 16292>>, <<27836, 16107>>, <<27837, 10769>>, <<27838, 16076>>,
       <<27839, 15352>>, <<27840, 4990>>, <<27841, 4991>>, <<27842, 4992>>, <<27843, 4993>>,
       <<27844, 15131>>, <<27845, 13482>>, <<27846, 4994>>, <<27847, 4995>>, <<27848, 4996>>,
       <<27849, 13596>>, <<27850, 9426>>, <<27851, 4997>>, <<27852, 12694>>, <<27853, 4998>>,
       <<27854, 4999>>, <<27855, 5000>>, <<27856, 18794>>, <<27857, 5001>>, <<27858, 5002>>,
       <<27859, 18808>>, <<27860, 18795>>, <<27861, 10364>>, <<27862, 18803>>, <<27863, 18800>>,
       <<27864, 5003>>, <<27865, 5004>>, <<27866, 5005>>, <<27867, 10382>>, <<27868, 5006>>,
       <<27869, 5007>>, <<27870, 13018>>, <<27871, 5008>>, <<27872, 18802>>, <<27873, 13077>>,
       <<27874, 9414>>, <<27875, 13298>>, <<27876, 5009>>, <<27877, 12890>>, <<27878, 5010>>,
       <<27879, 5011>>, <<27880, 16438>>, <<27881, 5012>>, <<27882, 12131>>, <<27883, 18805>>,
       <<27884, 5013>>, <<27885, 5014>>, <<27886, 18806>>, <<27887, 18809>>, <<27888, 14355>>,
       <<27889, 18799>>, <<27890, 5015>>, <<27891, 15706>>, <<27892, 5016>>, <<27893, 9251>>,
       <<27894, 20636>>, <<27895, 18797>>, <<27896, 18798>>, <<27897, 5017>>, <<27898, 18804>>,
       <<27899, 15132>>, <<27900, 13241>>, <<27901, 15949>>, <<27902, 18810>>, <<27903, 5018>>,
       <<27904, 5019>>, <<27905, 11560>>, <<27906, 5020>>, <<27907, 5021>>, <<27908, 18913>>,
       <<27909, 5022>>, <<27910, 5023>>, <<27911, 18912>>, <<27912, 5024>>, <<27913, 5025>>,
       <<27914, 5026>>, <<27915, 15379>>, <<27916, 18909>>, <<27917, 5027>>, <<27918, 18915>>,
       <<27919, 5028>>, <<27920, 5029>>, <<27921, 5030>>, <<27922, 13673>>, <<27923, 5031>>,
       <<27924, 5032>>, <<27925, 5033>>, <<27926, 5034>>, <<27927, 14936>>, <<27928, 5035>>,
       <<27929, 18914>>, <<27930, 18920>>, <<27931, 12515>>, <<27932, 5036>>, <<27933, 5037>>,
       <<27934, 10186>>, <<27935, 5038>>, <<27936, 5039>>, <<27937, 5040>>, <<27938, 5041>>,
       <<27939, 5042>>, <<27940, 5043>>, <<27941, 11578>>, <<27942, 5044>>, <<27943, 18908>>,
       <<27944, 5045>>, <<27945, 5046>>, <<27946, 10999>>, <<27947, 18916>>, <<27948, 5047>>,
       <<27949, 5048>>, <<27950, 18918>>, <<27951, 5049>>, <<27952, 5050>>, <<27953, 10259>>,
       <<27954, 16308>>, <<27955, 18924>>, <<27956, 5051>>, <<27957, 18919>>, <<27958, 5052>>,
       <<27959, 5053>>, <<27960, 5054>>, <<27961, 18907>>, <<27962, 5055>>, <<27963, 11194>>,
       <<27964, 14597>>, <<27965, 13398>>, <<27966, 13057>>, <<27967, 5056>>, <<27968, 5057>>,
       <<27969, 12343>>, <<27970, 5058>>, <<27971, 18910>>, <<27972, 5059>>, <<27973, 13415>>,
       <<27974, 11508>>, <<27975, 11525>>, <<27976, 18911>>, <<27977, 5060>>, <<27978, 16475>>,
       <<27979, 9472>>, <<27980, 5061>>, <<27981, 18917>>, <<27982, 11341>>, <<27983, 18921>>,
       <<27984, 5062>>, <<27985, 11191>>, <<27986, 18922>>, <<27987, 13024>>, <<27988, 18923>>,
       <<27989, 5063>>, <<27990, 5064>>, <<27991, 5065>>, <<27992, 5066>>, <<27993, 16123>>,
       <<27994, 11879>>, <<27995, 5067>>, <<27996, 18932>>, <<27997, 5068>>, <<27998, 18929>>,
       <<27999, 5069>>, <<28000, 18933>>, <<28001, 5070>>, <<28002, 5071>>, <<28003, 18935>>,
       <<28004, 5072>>, <<28005, 5073>>, <<28006, 13260>>, <<28007, 5074>>, <<28008, 5075>>,
       <<28009, 10964>>, <<28010, 12109>>, <<28011, 5076>>, <<28012, 5077>>, <<28013, 5078>>,
       <<28014, 10547>>, <<28015, 18926>>, <<28016, 5079>>, <<28017, 5080>>, <<28018, 5081>>,
       <<28019, 5082>>, <<28020, 15867>>, <<28021, 5083>>, <<28022, 5084>>, <<28023, 10929>>,
       <<28024, 11590>>, <<28025, 5085>>, <<28026, 5086>>, <<28027, 5087>>, <<28028, 18934>>,
       <<28029, 5088>>, <<28030, 5089>>, <<28031, 5090>>, <<28032, 5091>>, <<28033, 5092>>,
       <<28034, 14567>>, <<28035, 5093>>, <<28036, 5094>>, <<28037, 12915>>, <<28038, 5095>>,
       <<28039, 5096>>, <<28040, 15007>>, <<28041, 13846>>, <<28042, 5097>>, <<28043, 5098>>,
       <<28044, 15707>>, <<28045, 5099>>, <<28046, 14965>>, <<28047, 5100>>, <<28048, 5101>>,
       <<28049, 18925>>, <<28050, 5102>>, <<28051, 18930>>, <<28052, 18931>>, <<28053, 14419>>,
       <<28054, 5103>>, <<28055, 5104>>, <<28056, 5105>>, <<28057, 5106>>, <<28058, 5107>>,
       <<28059, 14392>>, <<28060, 5108>>, <<28061, 12118>>, <<28062, 18927>>, <<28063, 12272>>,
       <<28064, 18928>>, <<28065, 14774>>, <<28066, 5109>>, <<28067, 11149>>, <<28068, 10027>>,
       <<28069, 5110>>, <<28070, 13669>>, <<28071, 11503>>, <<28072, 16095>>, <<28073, 13788>>,
       <<28074, 10548>>, <<28075, 18948>>, <<28076, 5111>>, <<28077, 5112>>, <<28078, 18950>>,
       <<28079, 15332>>, <<28080, 5113>>, <<28081, 5114>>, <<28082, 15512>>, <<28083, 5115>>,
       <<28084, 5116>>, <<28085, 10939>>, <<28086, 5117>>, <<28087, 5118>>, <<28088, 10978>>,
       <<28089, 5119>>, <<28090, 5120>>, <<28091, 5121>>, <<28092, 5122>>, <<28093, 5123>>, <<28094, 5124>>,
       <<28095, 18941>>, <<28096, 10053>>, <<28097, 5125>>, <<28098, 5126>>, <<28099, 5127>>,
       <<28100, 16481>>, <<28101, 18938>>, <<28102, 15009>>, <<28103, 18937>>, <<28104, 5128>>,
       <<28105, 5129>>, <<28106, 5130>>, <<28107, 12316>>, <<28108, 14388>>, <<28109, 5131>>,
       <<28110, 5132>>, <<28111, 5133>>, <<28112, 5134>>, <<28113, 14037>>, <<28114, 5135>>,
       <<28115, 5136>>, <<28116, 5137>>, <<28117, 5138>>, <<28118, 12881>>, <<28119, 5139>>,
       <<28120, 14398>>, <<28121, 18946>>, <<28122, 5140>>, <<28123, 5141>>, <<28124, 5142>>,
       <<28125, 18945>>, <<28126, 18939>>, <<28127, 5143>>, <<28128, 18942>>, <<28129, 9989>>,
       <<28130, 5144>>, <<28131, 5145>>, <<28132, 15733>>, <<28133, 5146>>, <<28134, 18944>>,
       <<28135, 5147>>, <<28136, 5148>>, <<28137, 5149>>, <<28138, 5150>>, <<28139, 15575>>,
       <<28140, 9853>>, <<28141, 5151>>, <<28142, 11136>>, <<28143, 5152>>, <<28144, 5153>>,
       <<28145, 13854>>, <<28146, 5154>>, <<28147, 9816>>, <<28148, 5155>>, <<28149, 5156>>,
       <<28150, 5157>>, <<28151, 11192>>, <<28152, 5158>>, <<28153, 15341>>, <<28154, 5159>>,
       <<28155, 14423>>, <<28156, 20637>>, <<28157, 5160>>, <<28158, 5161>>, <<28159, 5162>>,
       <<28160, 5163>>, <<28161, 5164>>, <<28162, 5165>>, <<28163, 5166>>, <<28164, 5167>>,
       <<28165, 13465>>, <<28166, 5168>>, <<28167, 5169>>, <<28168, 5170>>, <<28169, 5171>>,
       <<28170, 15874>>, <<28171, 5172>>, <<28172, 18949>>, <<28173, 16489>>, <<28174, 18940>>,
       <<28175, 5173>>, <<28176, 11501>>, <<28177, 18943>>, <<28178, 5174>>, <<28179, 5175>>,
       <<28180, 15746>>, <<28181, 5176>>, <<28182, 18947>>, <<28183, 13864>>, <<28184, 5177>>,
       <<28185, 5178>>, <<28186, 18936>>, <<28187, 5179>>, <<28188, 5180>>, <<28189, 15745>>,
       <<28190, 5181>>, <<28191, 5182>>, <<28192, 13490>>, <<28193, 10207>>, <<28194, 5183>>,
       <<28195, 15958>>, <<28196, 9425>>, <<28197, 18961>>, <<28198, 5184>>, <<28199, 5185>>,
       <<28200, 5186>>, <<28201, 14760>>, <<28202, 5187>>, <<28203, 18951>>, <<28204, 5188>>,
       <<28205, 14754>>, <<28206, 5189>>, <<28207, 10605>>, <<28208, 5190>>, <<28209, 5191>>,
       <<28210, 18960>>, <<28211, 5192>>, <<28212, 11918>>, <<28213, 5193>>, <<28214, 5194>>,
       <<28215, 5195>>, <<28216, 15722>>, <<28217, 5196>>, <<28218, 12712>>, <<28219, 5197>>,
       <<28220, 5198>>, <<28221, 5199>>, <<28222, 5200>>, <<28223, 5201>>, <<28224, 5202>>, <<28225, 5203>>,
       <<28226, 5204>>, <<28227, 13056>>, <<28228, 18962>>, <<28229, 5205>>, <<28230, 5206>>,
       <<28231, 5207>>, <<28232, 5208>>, <<28233, 5209>>, <<28234, 5210>>, <<28235, 5211>>, <<28236, 5212>>,
       <<28237, 14572>>, <<28238, 18953>>, <<28239, 5213>>, <<28240, 5214>>, <<28241, 5215>>,
       <<28242, 5216>>, <<28243, 18958>>, <<28244, 18959>>, <<28245, 5217>>, <<28246, 11020>>,
       <<28247, 5218>>, <<28248, 14986>>, <<28249, 5219>>, <<28250, 5220>>, <<28251, 16087>>,
       <<28252, 5221>>, <<28253, 5222>>, <<28254, 5223>>, <<28255, 18956>>, <<28256, 5224>>,
       <<28257, 5225>>, <<28258, 5226>>, <<28259, 5227>>, <<28260, 5228>>, <<28261, 5229>>, <<28262, 5230>>,
       <<28263, 5231>>, <<28264, 5232>>, <<28265, 5233>>, <<28266, 5234>>, <<28267, 18954>>,
       <<28268, 5235>>, <<28269, 5236>>, <<28270, 18952>>, <<28271, 5237>>, <<28272, 5238>>,
       <<28273, 5239>>, <<28274, 5240>>, <<28275, 5241>>, <<28276, 5242>>, <<28277, 5243>>, <<28278, 5244>>,
       <<28279, 5245>>, <<28280, 5246>>, <<28281, 5247>>, <<28282, 5248>>, <<28283, 5249>>, <<28284, 5250>>,
       <<28285, 5251>>, <<28286, 14605>>, <<28287, 13976>>, <<28288, 5252>>, <<28289, 5253>>,
       <<28290, 5254>>, <<28291, 12069>>, <<28292, 5255>>, <<28293, 11502>>, <<28294, 18957>>,
       <<28295, 5256>>, <<28296, 5257>>, <<28297, 10586>>, <<28298, 5258>>, <<28299, 5259>>,
       <<28300, 5260>>, <<28301, 5261>>, <<28302, 5262>>, <<28303, 18977>>, <<28304, 15886>>,
       <<28305, 5263>>, <<28306, 5264>>, <<28307, 5265>>, <<28308, 5266>>, <<28309, 5267>>, <<28310, 5268>>,
       <<28311, 5269>>, <<28312, 18965>>, <<28313, 5270>>, <<28314, 5271>>, <<28315, 5272>>,
       <<28316, 12335>>, <<28317, 5273>>, <<28318, 5274>>, <<28319, 18979>>, <<28320, 5275>>,
       <<28321, 5276>>, <<28322, 15557>>, <<28323, 5277>>, <<28324, 5278>>, <<28325, 18969>>,
       <<28326, 5279>>, <<28327, 18970>>, <<28328, 5280>>, <<28329, 5281>>, <<28330, 14926>>,
       <<28331, 5282>>, <<28332, 5283>>, <<28333, 5284>>, <<28334, 5285>>, <<28335, 14217>>,
       <<28336, 5286>>, <<28337, 18964>>, <<28338, 18955>>, <<28339, 5287>>, <<28340, 18975>>,
       <<28341, 5288>>, <<28342, 13646>>, <<28343, 18973>>, <<28344, 5289>>, <<28345, 5290>>,
       <<28346, 12897>>, <<28347, 18972>>, <<28348, 5291>>, <<28349, 18971>>, <<28350, 5292>>,
       <<28351, 5293>>, <<28352, 5294>>, <<28353, 9688>>, <<28354, 18978>>, <<28355, 5295>>,
       <<28356, 5296>>, <<28357, 5297>>, <<28358, 5298>>, <<28359, 10041>>, <<28360, 5299>>,
       <<28361, 5300>>, <<28362, 5301>>, <<28363, 16480>>, <<28364, 5302>>, <<28365, 5303>>,
       <<28366, 5304>>, <<28367, 18976>>, <<28368, 5305>>, <<28369, 11128>>, <<28370, 5306>>,
       <<28371, 16486>>, <<28372, 14393>>, <<28373, 20324>>, <<28374, 5307>>, <<28375, 18974>>,
       <<28376, 5308>>, <<28377, 5309>>, <<28378, 10822>>, <<28379, 5310>>, <<28380, 5311>>,
       <<28381, 5312>>, <<28382, 16291>>, <<28383, 18963>>, <<28384, 18966>>, <<28385, 12536>>,
       <<28386, 18968>>, <<28387, 5313>>, <<28388, 12489>>, <<28389, 12102>>, <<28390, 12494>>,
       <<28391, 5314>>, <<28392, 9301>>, <<28393, 14364>>, <<28394, 5315>>, <<28395, 5316>>,
       <<28396, 5317>>, <<28397, 5318>>, <<28398, 5319>>, <<28399, 5320>>, <<28400, 5321>>, <<28401, 5322>>,
       <<28402, 5323>>, <<28403, 5324>>, <<28404, 10022>>, <<28405, 5325>>, <<28406, 5326>>,
       <<28407, 5327>>, <<28408, 5328>>, <<28409, 18985>>, <<28410, 5329>>, <<28411, 5330>>,
       <<28412, 5331>>, <<28413, 5332>>, <<28414, 5333>>, <<28415, 5334>>, <<28416, 5335>>, <<28417, 5336>>,
       <<28418, 13221>>, <<28419, 5337>>, <<28420, 5338>>, <<28421, 5339>>, <<28422, 13271>>,
       <<28423, 5340>>, <<28424, 5341>>, <<28425, 18991>>, <<28426, 5342>>, <<28427, 5343>>,
       <<28428, 5344>>, <<28429, 5345>>, <<28430, 5346>>, <<28431, 12455>>, <<28432, 5347>>,
       <<28433, 5348>>, <<28434, 5349>>, <<28435, 12142>>, <<28436, 15357>>, <<28437, 18984>>,
       <<28438, 5350>>, <<28439, 5351>>, <<28440, 5352>>, <<28441, 5353>>, <<28442, 5354>>, <<28443, 5355>>,
       <<28444, 5356>>, <<28445, 5357>>, <<28446, 5358>>, <<28447, 5359>>, <<28448, 12840>>,
       <<28449, 5360>>, <<28450, 5361>>, <<28451, 5362>>, <<28452, 18983>>, <<28453, 5363>>,
       <<28454, 5364>>, <<28455, 5365>>, <<28456, 5366>>, <<28457, 18992>>, <<28458, 18990>>,
       <<28459, 12540>>, <<28460, 5367>>, <<28461, 18967>>, <<28462, 5368>>, <<28463, 18986>>,
       <<28464, 5369>>, <<28465, 14060>>, <<28466, 5370>>, <<28467, 16092>>, <<28468, 5371>>,
       <<28469, 5372>>, <<28470, 18987>>, <<28471, 5373>>, <<28472, 5374>>, <<28473, 5375>>,
       <<28474, 5376>>, <<28475, 5377>>, <<28476, 5378>>, <<28477, 5379>>, <<28478, 15386>>,
       <<28479, 5380>>, <<28480, 5381>>, <<28481, 5382>>, <<28482, 5383>>, <<28483, 5384>>, <<28484, 5385>>,
       <<28485, 5386>>, <<28486, 18981>>, <<28487, 18982>>, <<28488, 5387>>, <<28489, 5388>>,
       <<28490, 5389>>, <<28491, 18988>>, <<28492, 5390>>, <<28493, 14737>>, <<28494, 5391>>,
       <<28495, 5392>>, <<28496, 5393>>, <<28497, 5394>>, <<28498, 5395>>, <<28499, 5396>>, <<28500, 5397>>,
       <<28501, 5398>>, <<28502, 5399>>, <<28503, 5400>>, <<28504, 13059>>, <<28505, 5401>>,
       <<28506, 5402>>, <<28507, 5403>>, <<28508, 13413>>, <<28509, 5404>>, <<28510, 12472>>,
       <<28511, 5405>>, <<28512, 5406>>, <<28513, 5407>>, <<28514, 18980>>, <<28515, 5408>>,
       <<28516, 5409>>, <<28517, 5410>>, <<28518, 12298>>, <<28519, 5411>>, <<28520, 5412>>,
       <<28521, 5413>>, <<28522, 5414>>, <<28523, 5415>>, <<28524, 5416>>, <<28525, 14368>>,
       <<28526, 9613>>, <<28527, 5417>>, <<28528, 5418>>, <<28529, 5419>>, <<28530, 18997>>,
       <<28531, 5420>>, <<28532, 18989>>, <<28533, 5421>>, <<28534, 5422>>, <<28535, 5423>>,
       <<28536, 18996>>, <<28537, 5424>>, <<28538, 18999>>, <<28539, 5425>>, <<28540, 18998>>,
       <<28541, 5426>>, <<28542, 5427>>, <<28543, 5428>>, <<28544, 5429>>, <<28545, 5430>>, <<28546, 5431>>,
       <<28547, 5432>>, <<28548, 9642>>, <<28549, 5433>>, <<28550, 5434>>, <<28551, 5435>>, <<28552, 9622>>,
       <<28553, 18993>>, <<28554, 5436>>, <<28555, 5437>>, <<28556, 18995>>, <<28557, 18994>>,
       <<28558, 13092>>, <<28559, 5438>>, <<28560, 5439>>, <<28561, 5440>>, <<28562, 5441>>,
       <<28563, 5442>>, <<28564, 5443>>, <<28565, 5444>>, <<28566, 5445>>, <<28567, 5446>>, <<28568, 5447>>,
       <<28569, 5448>>, <<28570, 5449>>, <<28571, 5450>>, <<28572, 12095>>, <<28573, 5451>>,
       <<28574, 5452>>, <<28575, 5453>>, <<28576, 5454>>, <<28577, 15938>>, <<28578, 5455>>,
       <<28579, 5456>>, <<28580, 5457>>, <<28581, 5458>>, <<28582, 5459>>, <<28583, 19098>>,
       <<28584, 5460>>, <<28585, 5461>>, <<28586, 5462>>, <<28587, 5463>>, <<28588, 5464>>, <<28589, 5465>>,
       <<28590, 5466>>, <<28591, 5467>>, <<28592, 5468>>, <<28593, 5469>>, <<28594, 5470>>, <<28595, 9062>>,
       <<28596, 5471>>, <<28597, 5472>>, <<28598, 19100>>, <<28599, 5473>>, <<28600, 5474>>,
       <<28601, 19099>>, <<28602, 5475>>, <<28603, 5476>>, <<28604, 5477>>, <<28605, 5478>>,
       <<28606, 5479>>, <<28607, 5480>>, <<28608, 11310>>, <<28609, 5481>>, <<28610, 19101>>,
       <<28611, 5482>>, <<28612, 5483>>, <<28613, 5484>>, <<28614, 5485>>, <<28615, 5486>>, <<28616, 5487>>,
       <<28617, 19097>>, <<28618, 5488>>, <<28619, 5489>>, <<28620, 5490>>, <<28621, 5491>>,
       <<28622, 5492>>, <<28623, 5493>>, <<28624, 5494>>, <<28625, 19000>>, <<28626, 9300>>,
       <<28627, 5495>>, <<28628, 5496>>, <<28629, 5497>>, <<28630, 5498>>, <<28631, 5499>>, <<28632, 5500>>,
       <<28633, 5501>>, <<28634, 5502>>, <<28635, 5503>>, <<28636, 5504>>, <<28637, 5505>>,
       <<28638, 19104>>, <<28639, 5506>>, <<28640, 19105>>, <<28641, 19102>>, <<28642, 5507>>,
       <<28643, 5508>>, <<28644, 5509>>, <<28645, 5510>>, <<28646, 5511>>, <<28647, 5512>>, <<28648, 5513>>,
       <<28649, 5514>>, <<28650, 5515>>, <<28651, 5516>>, <<28652, 5517>>, <<28653, 5518>>,
       <<28654, 19103>>, <<28655, 19106>>, <<28656, 5519>>, <<28657, 5520>>, <<28658, 5521>>,
       <<28659, 5522>>, <<28660, 5523>>, <<28661, 5524>>, <<28662, 5525>>, <<28663, 5526>>, <<28664, 5527>>,
       <<28665, 5528>>, <<28666, 5529>>, <<28667, 5530>>, <<28668, 5531>>, <<28669, 5532>>, <<28670, 5533>>,
       <<28671, 5534>>, <<28672, 5535>>, <<28673, 5536>>, <<28674, 5537>>, <<28675, 5538>>, <<28676, 5539>>,
       <<28677, 5540>>, <<28678, 5541>>, <<28679, 5542>>, <<28680, 5543>>, <<28681, 5544>>, <<28682, 5545>>,
       <<28683, 5546>>, <<28684, 5547>>, <<28685, 5548>>, <<28686, 5549>>, <<28687, 5550>>, <<28688, 5551>>,
       <<28689, 13263>>, <<28690, 5552>>, <<28691, 5553>>, <<28692, 5554>>, <<28693, 5555>>,
       <<28694, 5556>>, <<28695, 5557>>, <<28696, 5558>>, <<28697, 5559>>, <<28698, 19107>>,
       <<28699, 19109>>, <<28700, 5560>>, <<28701, 5561>>, <<28702, 5562>>, <<28703, 5563>>,
       <<28704, 5564>>, <<28705, 5565>>, <<28706, 5566>>, <<28707, 19108>>, <<28708, 5567>>,
       <<28709, 5568>>, <<28710, 5569>>, <<28711, 5570>>, <<28712, 5571>>, <<28713, 5572>>, <<28714, 5573>>,
       <<28715, 5574>>, <<28716, 5575>>, <<28717, 5576>>, <<28718, 5577>>, <<28719, 5578>>, <<28720, 5579>>,
       <<28721, 5580>>, <<28722, 5581>>, <<28723, 5582>>, <<28724, 5583>>, <<28725, 19111>>,
       <<28726, 5584>>, <<28727, 5585>>, <<28728, 5586>>, <<28729, 19110>>, <<28730, 5587>>,
       <<28731, 5588>>, <<28732, 5589>>, <<28733, 5590>>, <<28734, 5591>>, <<28735, 5592>>, <<28736, 5593>>,
       <<28737, 5594>>, <<28738, 5595>>, <<28739, 5596>>, <<28740, 5597>>, <<28741, 5598>>, <<28742, 5599>>,
       <<28743, 5600>>, <<28744, 5601>>, <<28745, 5602>>, <<28746, 5603>>, <<28747, 5604>>,
       <<28748, 10800>>, <<28749, 5605>>, <<28750, 5606>>, <<28751, 19112>>, <<28752, 5607>>,
       <<28753, 5608>>, <<28754, 5609>>, <<28755, 5610>>, <<28756, 5611>>, <<28757, 5612>>, <<28758, 5613>>,
       <<28759, 5614>>, <<28760, 5615>>, <<28761, 5616>>, <<28762, 5617>>, <<28763, 5618>>, <<28764, 5619>>,
       <<28765, 5620>>, <<28766, 19113>>, <<28767, 5621>>, <<28768, 5622>>, <<28769, 5623>>,
       <<28770, 5624>>, <<28771, 5625>>, <<28772, 5626>>, <<28773, 5627>>, <<28774, 5628>>, <<28775, 5629>>,
       <<28776, 5630>>, <<28777, 5631>>, <<28778, 5632>>, <<28779, 11196>>, <<28780, 20491>>,
       <<28781, 12716>>, <<28782, 5633>>, <<28783, 10014>>, <<28784, 11166>>, <<28785, 5634>>,
       <<28786, 5635>>, <<28787, 5636>>, <<28788, 5637>>, <<28789, 12329>>, <<28790, 15944>>,
       <<28791, 5638>>, <<28792, 11722>>, <<28793, 5639>>, <<28794, 5640>>, <<28795, 5641>>,
       <<28796, 16474>>, <<28797, 5642>>, <<28798, 15920>>, <<28799, 9457>>, <<28800, 20456>>,
       <<28801, 5643>>, <<28802, 5644>>, <<28803, 5645>>, <<28804, 5646>>, <<28805, 20079>>,
       <<28806, 5647>>, <<28807, 5648>>, <<28808, 5649>>, <<28809, 12461>>, <<28810, 9808>>,
       <<28811, 5650>>, <<28812, 5651>>, <<28813, 5652>>, <<28814, 15351>>, <<28815, 5653>>,
       <<28816, 5654>>, <<28817, 5655>>, <<28818, 9616>>, <<28819, 5656>>, <<28820, 13604>>,
       <<28821, 11903>>, <<28822, 20458>>, <<28823, 5657>>, <<28824, 5658>>, <<28825, 16289>>,
       <<28826, 5659>>, <<28827, 5660>>, <<28828, 20457>>, <<28829, 20459>>, <<28830, 5661>>,
       <<28831, 5662>>, <<28832, 5663>>, <<28833, 5664>>, <<28834, 5665>>, <<28835, 5666>>, <<28836, 5667>>,
       <<28837, 5668>>, <<28838, 5669>>, <<28839, 5670>>, <<28840, 5671>>, <<28841, 5672>>, <<28842, 5673>>,
       <<28843, 20463>>, <<28844, 11756>>, <<28845, 14377>>, <<28846, 13074>>, <<28847, 11714>>,
       <<28848, 5674>>, <<28849, 20464>>, <<28850, 5675>>, <<28851, 9310>>, <<28852, 5676>>,
       <<28853, 5677>>, <<28854, 5678>>, <<28855, 20462>>, <<28856, 16064>>, <<28857, 10043>>,
       <<28858, 5679>>, <<28859, 20460>>, <<28860, 12278>>, <<28861, 9663>>, <<28862, 5680>>,
       <<28863, 5681>>, <<28864, 20461>>, <<28865, 14180>>, <<28866, 12101>>, <<28867, 14440>>,
       <<28868, 5682>>, <<28869, 5683>>, <<28870, 5684>>, <<28871, 5685>>, <<28872, 12306>>,
       <<28873, 5686>>, <<28874, 20466>>, <<28875, 5687>>, <<28876, 5688>>, <<28877, 5689>>,
       <<28878, 5690>>, <<28879, 5691>>, <<28880, 5692>>, <<28881, 5693>>, <<28882, 5694>>, <<28883, 5695>>,
       <<28884, 5696>>, <<28885, 5697>>, <<28886, 5698>>, <<28887, 5699>>, <<28888, 10996>>,
       <<28889, 12117>>, <<28890, 5700>>, <<28891, 16328>>, <<28892, 5701>>, <<28893, 5702>>,
       <<28894, 5703>>, <<28895, 15340>>, <<28896, 5704>>, <<28897, 5705>>, <<28898, 5706>>,
       <<28899, 5707>>, <<28900, 11906>>, <<28901, 5708>>, <<28902, 10375>>, <<28903, 13829>>,
       <<28904, 20465>>, <<28905, 11182>>, <<28906, 5709>>, <<28907, 14390>>, <<28908, 11589>>,
       <<28909, 13626>>, <<28910, 5710>>, <<28911, 14925>>, <<28912, 5711>>, <<28913, 5712>>,
       <<28914, 5713>>, <<28915, 5714>>, <<28916, 5715>>, <<28917, 5716>>, <<28918, 5717>>,
       <<28919, 14609>>, <<28920, 5718>>, <<28921, 13091>>, <<28922, 5719>>, <<28923, 5720>>,
       <<28924, 5721>>, <<28925, 10429>>, <<28926, 5722>>, <<28927, 5723>>, <<28928, 5724>>,
       <<28929, 5725>>, <<28930, 5726>>, <<28931, 5727>>, <<28932, 5728>>, <<28933, 5729>>, <<28934, 5730>>,
       <<28935, 5731>>, <<28936, 5732>>, <<28937, 15337>>, <<28938, 10950>>, <<28939, 5733>>,
       <<28940, 5734>>, <<28941, 5735>>, <<28942, 5736>>, <<28943, 5737>>, <<28944, 20467>>,
       <<28945, 5738>>, <<28946, 5739>>, <<28947, 20468>>, <<28948, 5740>>, <<28949, 11148>>,
       <<28950, 20469>>, <<28951, 5741>>, <<28952, 20492>>, <<28953, 9242>>, <<28954, 10413>>,
       <<28955, 5742>>, <<28956, 5743>>, <<28957, 5744>>, <<28958, 5745>>, <<28959, 5746>>, <<28960, 5747>>,
       <<28961, 5748>>, <<28962, 5749>>, <<28963, 5750>>, <<28964, 5751>>, <<28965, 5752>>,
       <<28966, 11521>>, <<28967, 5753>>, <<28968, 5754>>, <<28969, 5755>>, <<28970, 5756>>,
       <<28971, 5757>>, <<28972, 5758>>, <<28973, 5759>>, <<28974, 5760>>, <<28975, 20470>>,
       <<28976, 15366>>, <<28977, 20471>>, <<28978, 5761>>, <<28979, 5762>>, <<28980, 5763>>,
       <<28981, 5764>>, <<28982, 13613>>, <<28983, 5765>>, <<28984, 5766>>, <<28985, 5767>>,
       <<28986, 5768>>, <<28987, 5769>>, <<28988, 5770>>, <<28989, 5771>>, <<28990, 5772>>, <<28991, 5773>>,
       <<28992, 5774>>, <<28993, 5775>>, <<28994, 5776>>, <<28995, 5777>>, <<28996, 5778>>,
       <<28997, 20475>>, <<28998, 5779>>, <<28999, 5780>>, <<29000, 5781>>, <<29001, 5782>>,
       <<29002, 20477>>, <<29003, 5783>>, <<29004, 11161>>, <<29005, 5784>>, <<29006, 11375>>,
       <<29007, 5785>>, <<29008, 5786>>, <<29009, 5787>>, <<29010, 5788>>, <<29011, 5789>>, <<29012, 5790>>,
       <<29013, 5791>>, <<29014, 5792>>, <<29015, 5793>>, <<29016, 5794>>, <<29017, 5795>>, <<29018, 5796>>,
       <<29019, 5797>>, <<29020, 20473>>, <<29021, 5798>>, <<29022, 13799>>, <<29023, 5799>>,
       <<29024, 5800>>, <<29025, 5801>>, <<29026, 5802>>, <<29027, 5803>>, <<29028, 12662>>,
       <<29029, 5804>>, <<29030, 20493>>, <<29031, 16109>>, <<29032, 20474>>, <<29033, 5805>>,
       <<29034, 5806>>, <<29035, 5807>>, <<29036, 5808>>, <<29037, 5809>>, <<29038, 16329>>,
       <<29039, 5810>>, <<29040, 5811>>, <<29041, 5812>>, <<29042, 20476>>, <<29043, 20472>>,
       <<29044, 5813>>, <<29045, 5814>>, <<29046, 5815>>, <<29047, 5816>>, <<29048, 20478>>,
       <<29049, 5817>>, <<29050, 20479>>, <<29051, 5818>>, <<29052, 5819>>, <<29053, 13807>>,
       <<29054, 5820>>, <<29055, 5821>>, <<29056, 5822>>, <<29057, 5823>>, <<29058, 5824>>, <<29059, 5825>>,
       <<29060, 14924>>, <<29061, 5826>>, <<29062, 5827>>, <<29063, 5828>>, <<29064, 5829>>,
       <<29065, 5830>>, <<29066, 15166>>, <<29067, 5831>>, <<29068, 5832>>, <<29069, 5833>>,
       <<29070, 5834>>, <<29071, 15308>>, <<29072, 5835>>, <<29073, 5836>>, <<29074, 5837>>,
       <<29075, 5838>>, <<29076, 13645>>, <<29077, 5839>>, <<29078, 5840>>, <<29079, 5841>>,
       <<29080, 20480>>, <<29081, 14811>>, <<29082, 5842>>, <<29083, 5843>>, <<29084, 5844>>,
       <<29085, 5845>>, <<29086, 5846>>, <<29087, 14042>>, <<29088, 20484>>, <<29089, 5847>>,
       <<29090, 5848>>, <<29091, 5849>>, <<29092, 5850>>, <<29093, 5851>>, <<29094, 5852>>, <<29095, 5853>>,
       <<29096, 20483>>, <<29097, 5854>>, <<29098, 5855>>, <<29099, 5856>>, <<29100, 9056>>,
       <<29101, 5857>>, <<29102, 5858>>, <<29103, 5859>>, <<29104, 5860>>, <<29105, 5861>>, <<29106, 5862>>,
       <<29107, 20481>>, <<29108, 5863>>, <<29109, 20482>>, <<29110, 5864>>, <<29111, 5865>>,
       <<29112, 5866>>, <<29113, 20494>>, <<29114, 5867>>, <<29115, 5868>>, <<29116, 5869>>,
       <<29117, 5870>>, <<29118, 5871>>, <<29119, 5872>>, <<29120, 5873>>, <<29121, 5874>>, <<29122, 5875>>,
       <<29123, 13614>>, <<29124, 5876>>, <<29125, 5877>>, <<29126, 5878>>, <<29127, 5879>>,
       <<29128, 5880>>, <<29129, 5881>>, <<29130, 5882>>, <<29131, 5883>>, <<29132, 5884>>, <<29133, 5885>>,
       <<29134, 12295>>, <<29135, 5886>>, <<29136, 5887>>, <<29137, 5888>>, <<29138, 5889>>,
       <<29139, 5890>>, <<29140, 20486>>, <<29141, 15360>>, <<29142, 5891>>, <<29143, 5892>>,
       <<29144, 5893>>, <<29145, 5894>>, <<29146, 5895>>, <<29147, 5896>>, <<29148, 5897>>, <<29149, 5898>>,
       <<29150, 5899>>, <<29151, 5900>>, <<29152, 20485>>, <<29153, 5901>>, <<29154, 5902>>,
       <<29155, 5903>>, <<29156, 5904>>, <<29157, 15945>>, <<29158, 5905>>, <<29159, 20487>>,
       <<29160, 5906>>, <<29161, 5907>>, <<29162, 5908>>, <<29163, 5909>>, <<29164, 5910>>, <<29165, 5911>>,
       <<29166, 17234>>, <<29167, 5912>>, <<29168, 5913>>, <<29169, 5914>>, <<29170, 5915>>,
       <<29171, 5916>>, <<29172, 5917>>, <<29173, 5918>>, <<29174, 5919>>, <<29175, 5920>>, <<29176, 5921>>,
       <<29177, 20488>>, <<29178, 5922>>, <<29179, 5923>>, <<29180, 5924>>, <<29181, 5925>>,
       <<29182, 5926>>, <<29183, 5927>>, <<29184, 5928>>, <<29185, 5929>>, <<29186, 5930>>, <<29187, 5931>>,
       <<29188, 5932>>, <<29189, 5933>>, <<29190, 9228>>, <<29191, 5934>>, <<29192, 5935>>, <<29193, 5936>>,
       <<29194, 5937>>, <<29195, 5938>>, <<29196, 5939>>, <<29197, 5940>>, <<29198, 5941>>, <<29199, 5942>>,
       <<29200, 5943>>, <<29201, 5944>>, <<29202, 5945>>, <<29203, 5946>>, <<29204, 5947>>, <<29205, 5948>>,
       <<29206, 5949>>, <<29207, 5950>>, <<29208, 5951>>, <<29209, 5952>>, <<29210, 5953>>, <<29211, 5954>>,
       <<29212, 5955>>, <<29213, 20489>>, <<29214, 5956>>, <<29215, 5957>>, <<29216, 5958>>,
       <<29217, 5959>>, <<29218, 5960>>, <<29219, 5961>>, <<29220, 5962>>, <<29221, 5963>>, <<29222, 5964>>,
       <<29223, 5965>>, <<29224, 20490>>, <<29225, 5966>>, <<29226, 16442>>, <<29227, 5967>>,
       <<29228, 13048>>, <<29229, 5968>>, <<29230, 5969>>, <<29231, 5970>>, <<29232, 20264>>,
       <<29233, 9040>>, <<29234, 5971>>, <<29235, 5972>>, <<29236, 5973>>, <<29237, 11770>>,
       <<29238, 10570>>, <<29239, 15501>>, <<29240, 9080>>, <<29241, 10065>>, <<29242, 5974>>,
       <<29243, 16645>>, <<29244, 5975>>, <<29245, 14168>>, <<29246, 5976>>, <<29247, 18777>>,
       <<29248, 5977>>, <<29249, 5978>>, <<29250, 5979>>, <<29251, 5980>>, <<29252, 5981>>, <<29253, 5982>>,
       <<29254, 5983>>, <<29255, 13218>>, <<29256, 9096>>, <<29257, 5984>>, <<29258, 5985>>,
       <<29259, 5986>>, <<29260, 13054>>, <<29261, 20261>>, <<29262, 5987>>, <<29263, 5988>>,
       <<29264, 5989>>, <<29265, 5990>>, <<29266, 20262>>, <<29267, 5991>>, <<29268, 5992>>,
       <<29269, 5993>>, <<29270, 20263>>, <<29271, 5994>>, <<29272, 5995>>, <<29273, 15328>>,
       <<29274, 5996>>, <<29275, 13019>>, <<29276, 5997>>, <<29277, 20128>>, <<29278, 5998>>,
       <<29279, 12844>>, <<29280, 5999>>, <<29281, 12847>>, <<29282, 12112>>, <<29283, 6000>>,
       <<29284, 6001>>, <<29285, 6002>>, <<29286, 20129>>, <<29287, 12859>>, <<29288, 6003>>,
       <<29289, 14805>>, <<29290, 6004>>, <<29291, 6005>>, <<29292, 6006>>, <<29293, 6007>>,
       <<29294, 20126>>, <<29295, 20130>>, <<29296, 6008>>, <<29297, 6009>>, <<29298, 13868>>,
       <<29299, 6010>>, <<29300, 6011>>, <<29301, 13399>>, <<29302, 6012>>, <<29303, 6013>>,
       <<29304, 6014>>, <<29305, 14402>>, <<29306, 14820>>, <<29307, 6015>>, <<29308, 6016>>,
       <<29309, 6017>>, <<29310, 20131>>, <<29311, 20132>>, <<29312, 14928>>, <<29313, 12137>>,
       <<29314, 6018>>, <<29315, 6019>>, <<29316, 20133>>, <<29317, 6020>>, <<29318, 6021>>,
       <<29319, 6022>>, <<29320, 6023>>, <<29321, 6024>>, <<29322, 10197>>, <<29323, 20134>>,
       <<29324, 6025>>, <<29325, 20135>>, <<29326, 6026>>, <<29327, 20136>>, <<29328, 6027>>,
       <<29329, 6028>>, <<29330, 20137>>, <<29331, 6029>>, <<29332, 6030>>, <<29333, 6031>>,
       <<29334, 6032>>, <<29335, 6033>>, <<29336, 6034>>, <<29337, 6035>>, <<29338, 6036>>, <<29339, 6037>>,
       <<29340, 6038>>, <<29341, 6039>>, <<29342, 6040>>, <<29343, 20127>>, <<29344, 6041>>,
       <<29345, 6042>>, <<29346, 6043>>, <<29347, 6044>>, <<29348, 6045>>, <<29349, 6046>>, <<29350, 6047>>,
       <<29351, 6048>>, <<29352, 6049>>, <<29353, 6050>>, <<29354, 6051>>, <<29355, 6052>>,
       <<29356, 13600>>, <<29357, 18411>>, <<29358, 6053>>, <<29359, 10380>>, <<29360, 18412>>,
       <<29361, 6054>>, <<29362, 6055>>, <<29363, 6056>>, <<29364, 18413>>, <<29365, 6057>>,
       <<29366, 16456>>, <<29367, 18414>>, <<29368, 18415>>, <<29369, 15720>>, <<29370, 6058>>,
       <<29371, 6059>>, <<29372, 6060>>, <<29373, 6061>>, <<29374, 6062>>, <<29375, 6063>>, <<29376, 6064>>,
       <<29377, 18417>>, <<29378, 11957>>, <<29379, 18416>>, <<29380, 10026>>, <<29381, 6065>>,
       <<29382, 6066>>, <<29383, 6067>>, <<29384, 9239>>, <<29385, 6068>>, <<29386, 6069>>, <<29387, 6070>>,
       <<29388, 6071>>, <<29389, 18419>>, <<29390, 18418>>, <<29391, 6072>>, <<29392, 11018>>,
       <<29393, 6073>>, <<29394, 18420>>, <<29395, 6074>>, <<29396, 6075>>, <<29397, 6076>>,
       <<29398, 6077>>, <<29399, 10759>>, <<29400, 6078>>, <<29401, 11735>>, <<29402, 6079>>,
       <<29403, 6080>>, <<29404, 7791>>, <<29405, 7792>>, <<29406, 12918>>, <<29407, 7793>>,
       <<29408, 10987>>, <<29409, 11534>>, <<29410, 7794>>, <<29411, 7795>>, <<29412, 7796>>,
       <<29413, 7797>>, <<29414, 7798>>, <<29415, 7799>>, <<29416, 18421>>, <<29417, 18423>>,
       <<29418, 7800>>, <<29419, 7801>>, <<29420, 10198>>, <<29421, 14949>>, <<29422, 13974>>,
       <<29423, 18422>>, <<29424, 16144>>, <<29425, 15768>>, <<29426, 18424>>, <<29427, 18428>>,
       <<29428, 18425>>, <<29429, 7802>>, <<29430, 7803>>, <<29431, 18426>>, <<29432, 12140>>,
       <<29433, 7804>>, <<29434, 18430>>, <<29435, 18527>>, <<29436, 12105>>, <<29437, 7805>>,
       <<29438, 7806>>, <<29439, 7807>>, <<29440, 7808>>, <<29441, 18427>>, <<29442, 7809>>,
       <<29443, 18429>>, <<29444, 7810>>, <<29445, 7811>>, <<29446, 7812>>, <<29447, 7813>>,
       <<29448, 7814>>, <<29449, 7815>>, <<29450, 18531>>, <<29451, 7816>>, <<29452, 7817>>,
       <<29453, 7818>>, <<29454, 12308>>, <<29455, 7819>>, <<29456, 7820>>, <<29457, 7821>>,
       <<29458, 7822>>, <<29459, 18529>>, <<29460, 7823>>, <<29461, 18534>>, <<29462, 9500>>,
       <<29463, 18528>>, <<29464, 7824>>, <<29465, 7825>>, <<29466, 7826>>, <<29467, 12681>>,
       <<29468, 9440>>, <<29469, 18533>>, <<29470, 18532>>, <<29471, 7827>>, <<29472, 7828>>,
       <<29473, 18530>>, <<29474, 18535>>, <<29475, 7829>>, <<29476, 7830>>, <<29477, 18537>>,
       <<29478, 7831>>, <<29479, 7832>>, <<29480, 7833>>, <<29481, 15147>>, <<29482, 16323>>,
       <<29483, 12644>>, <<29484, 18538>>, <<29485, 7834>>, <<29486, 14971>>, <<29487, 7835>>,
       <<29488, 7836>>, <<29489, 18540>>, <<29490, 7837>>, <<29491, 7838>>, <<29492, 11005>>,
       <<29493, 7839>>, <<29494, 7840>>, <<29495, 19920>>, <<29496, 18539>>, <<29497, 18536>>,
       <<29498, 7841>>, <<29499, 7842>>, <<29500, 7843>>, <<29501, 7844>>, <<29502, 11127>>,
       <<29503, 15885>>, <<29504, 7845>>, <<29505, 7846>>, <<29506, 7847>>, <<29507, 7848>>,
       <<29508, 7849>>, <<29509, 7850>>, <<29510, 7851>>, <<29511, 7852>>, <<29512, 7853>>, <<29513, 7854>>,
       <<29514, 7855>>, <<29515, 7856>>, <<29516, 7857>>, <<29517, 18542>>, <<29518, 7858>>,
       <<29519, 7859>>, <<29520, 18541>>, <<29521, 7860>>, <<29522, 19921>>, <<29523, 7861>>,
       <<29524, 7862>>, <<29525, 7863>>, <<29526, 7864>>, <<29527, 18543>>, <<29528, 7865>>,
       <<29529, 7866>>, <<29530, 7867>>, <<29531, 7868>>, <<29532, 7869>>, <<29533, 7870>>, <<29534, 7871>>,
       <<29535, 7872>>, <<29536, 18544>>, <<29537, 7873>>, <<29538, 7874>>, <<29539, 7875>>,
       <<29540, 7876>>, <<29541, 7877>>, <<29542, 7878>>, <<29543, 7879>>, <<29544, 7880>>, <<29545, 7881>>,
       <<29546, 7882>>, <<29547, 7883>>, <<29548, 18545>>, <<29549, 14347>>, <<29550, 7884>>,
       <<29551, 18546>>, <<29552, 7885>>, <<29553, 7886>>, <<29554, 7981>>, <<29555, 7982>>,
       <<29556, 7983>>, <<29557, 7984>>, <<29558, 7985>>, <<29559, 7986>>, <<29560, 7987>>, <<29561, 7988>>,
       <<29562, 7989>>, <<29563, 7990>>, <<29564, 7991>>, <<29565, 7992>>, <<29566, 18547>>,
       <<29567, 7993>>, <<29568, 7994>>, <<29569, 7995>>, <<29570, 7996>>, <<29571, 7997>>,
       <<29572, 15200>>, <<29573, 7998>>, <<29574, 7999>>, <<29575, 12488>>, <<29576, 8000>>,
       <<29577, 15757>>, <<29578, 8001>>, <<29579, 14621>>, <<29580, 8002>>, <<29581, 8003>>,
       <<29582, 19540>>, <<29583, 8004>>, <<29584, 8005>>, <<29585, 19541>>, <<29586, 8006>>,
       <<29587, 8007>>, <<29588, 8008>>, <<29589, 8009>>, <<29590, 11719>>, <<29591, 8010>>,
       <<29592, 8011>>, <<29593, 8012>>, <<29594, 8013>>, <<29595, 12520>>, <<29596, 8014>>,
       <<29597, 8015>>, <<29598, 8016>>, <<29599, 19544>>, <<29600, 8017>>, <<29601, 8018>>,
       <<29602, 19543>>, <<29603, 8019>>, <<29604, 8020>>, <<29605, 8021>>, <<29606, 8022>>,
       <<29607, 8023>>, <<29608, 8024>>, <<29609, 14606>>, <<29610, 8025>>, <<29611, 12657>>,
       <<29612, 8026>>, <<29613, 8027>>, <<29614, 19542>>, <<29615, 11139>>, <<29616, 14970>>,
       <<29617, 8028>>, <<29618, 12321>>, <<29619, 19549>>, <<29620, 8029>>, <<29621, 8030>>,
       <<29622, 8031>>, <<29623, 19548>>, <<29624, 8032>>, <<29625, 8033>>, <<29626, 19560>>,
       <<29627, 9409>>, <<29628, 8034>>, <<29629, 8035>>, <<29630, 8036>>, <<29631, 8037>>,
       <<29632, 19550>>, <<29633, 8038>>, <<29634, 19546>>, <<29635, 8039>>, <<29636, 8040>>,
       <<29637, 8041>>, <<29638, 8042>>, <<29639, 8043>>, <<29640, 19552>>, <<29641, 19551>>,
       <<29642, 13802>>, <<29643, 8044>>, <<29644, 8045>>, <<29645, 16124>>, <<29646, 8046>>,
       <<29647, 19545>>, <<29648, 10365>>, <<29649, 19547>>, <<29650, 8047>>, <<29651, 8048>>,
       <<29652, 8049>>, <<29653, 8050>>, <<29654, 8051>>, <<29655, 8052>>, <<29656, 8053>>,
       <<29657, 19554>>, <<29658, 8054>>, <<29659, 8055>>, <<29660, 8056>>, <<29661, 8057>>,
       <<29662, 19559>>, <<29663, 8058>>, <<29664, 16319>>, <<29665, 8059>>, <<29666, 8060>>,
       <<29667, 8061>>, <<29668, 8062>>, <<29669, 19553>>, <<29670, 8063>>, <<29671, 19558>>,
       <<29672, 8064>>, <<29673, 19557>>, <<29674, 8065>>, <<29675, 8066>>, <<29676, 8067>>,
       <<29677, 9090>>, <<29678, 8068>>, <<29679, 8069>>, <<29680, 8070>>, <<29681, 8071>>,
       <<29682, 19561>>, <<29683, 8072>>, <<29684, 8073>>, <<29685, 8074>>, <<29686, 8075>>,
       <<29687, 8076>>, <<29688, 8171>>, <<29689, 8172>>, <<29690, 8173>>, <<29691, 8174>>, <<29692, 8175>>,
       <<29693, 8176>>, <<29694, 8177>>, <<29695, 8178>>, <<29696, 8179>>, <<29697, 8180>>, <<29698, 8181>>,
       <<29699, 13478>>, <<29700, 8182>>, <<29701, 12103>>, <<29702, 12143>>, <<29703, 8183>>,
       <<29704, 8184>>, <<29705, 12336>>, <<29706, 19556>>, <<29707, 8185>>, <<29708, 8186>>,
       <<29709, 8187>>, <<29710, 8188>>, <<29711, 19562>>, <<29712, 14242>>, <<29713, 8189>>,
       <<29714, 8190>>, <<29715, 8191>>, <<29716, 8192>>, <<29717, 8193>>, <<29718, 8194>>, <<29719, 8195>>,
       <<29720, 8196>>, <<29721, 8197>>, <<29722, 19668>>, <<29723, 19667>>, <<29724, 8198>>,
       <<29725, 8199>>, <<29726, 8200>>, <<29727, 8201>>, <<29728, 8202>>, <<29729, 8203>>,
       <<29730, 16469>>, <<29731, 8204>>, <<29732, 8205>>, <<29733, 19566>>, <<29734, 19565>>,
       <<29735, 8206>>, <<29736, 19567>>, <<29737, 8207>>, <<29738, 19563>>, <<29739, 8208>>,
       <<29740, 19570>>, <<29741, 8209>>, <<29742, 19569>>, <<29743, 8210>>, <<29744, 19568>>,
       <<29745, 8211>>, <<29746, 8212>>, <<29747, 12309>>, <<29748, 13453>>, <<29749, 13109>>,
       <<29750, 13051>>, <<29751, 8213>>, <<29752, 8214>>, <<29753, 8215>>, <<29754, 8216>>,
       <<29755, 8217>>, <<29756, 13473>>, <<29757, 8218>>, <<29758, 8219>>, <<29759, 8220>>,
       <<29760, 8221>>, <<29761, 19669>>, <<29762, 8222>>, <<29763, 8223>>, <<29764, 8224>>,
       <<29765, 8225>>, <<29766, 8226>>, <<29767, 8227>>, <<29768, 8228>>, <<29769, 8229>>, <<29770, 8230>>,
       <<29771, 8231>>, <<29772, 8232>>, <<29773, 8233>>, <<29774, 8234>>, <<29775, 8235>>, <<29776, 8236>>,
       <<29777, 8237>>, <<29778, 8238>>, <<29779, 8239>>, <<29780, 8240>>, <<29781, 19672>>,
       <<29782, 8241>>, <<29783, 19671>>, <<29784, 8242>>, <<29785, 19673>>, <<29786, 11013>>,
       <<29787, 19564>>, <<29788, 19670>>, <<29789, 8243>>, <<29790, 13666>>, <<29791, 13786>>,
       <<29792, 8244>>, <<29793, 8245>>, <<29794, 8246>>, <<29795, 8247>>, <<29796, 8248>>, <<29797, 8249>>,
       <<29798, 8250>>, <<29799, 8251>>, <<29800, 8252>>, <<29801, 8253>>, <<29802, 8254>>, <<29803, 8255>>,
       <<29804, 8256>>, <<29805, 19675>>, <<29806, 8257>>, <<29807, 8258>>, <<29808, 10805>>,
       <<29809, 8259>>, <<29810, 8260>>, <<29811, 8261>>, <<29812, 8262>>, <<29813, 8263>>,
       <<29814, 15390>>, <<29815, 19674>>, <<29816, 8264>>, <<29817, 8265>>, <<29818, 8266>>,
       <<29819, 8361>>, <<29820, 8362>>, <<29821, 8363>>, <<29822, 19676>>, <<29823, 8364>>,
       <<29824, 19679>>, <<29825, 19680>>, <<29826, 8365>>, <<29827, 12263>>, <<29828, 8366>>,
       <<29829, 8367>>, <<29830, 8368>>, <<29831, 19681>>, <<29832, 8369>>, <<29833, 8370>>,
       <<29834, 8371>>, <<29835, 19682>>, <<29836, 8372>>, <<29837, 8373>>, <<29838, 19678>>,
       <<29839, 8374>>, <<29840, 19686>>, <<29841, 8375>>, <<29842, 8376>>, <<29843, 8377>>,
       <<29844, 8378>>, <<29845, 8379>>, <<29846, 8380>>, <<29847, 8381>>, <<29848, 8382>>, <<29849, 8383>>,
       <<29850, 8384>>, <<29851, 8385>>, <<29852, 19677>>, <<29853, 8386>>, <<29854, 19683>>,
       <<29855, 8387>>, <<29856, 8388>>, <<29857, 8389>>, <<29858, 8390>>, <<29859, 8391>>, <<29860, 8392>>,
       <<29861, 8393>>, <<29862, 8394>>, <<29863, 19687>>, <<29864, 19684>>, <<29865, 19685>>,
       <<29866, 8395>>, <<29867, 8396>>, <<29868, 8397>>, <<29869, 8398>>, <<29870, 8399>>, <<29871, 8400>>,
       <<29872, 8401>>, <<29873, 8402>>, <<29874, 8403>>, <<29875, 8404>>, <<29876, 8405>>, <<29877, 8406>>,
       <<29878, 8407>>, <<29879, 8408>>, <<29880, 8409>>, <<29881, 8410>>, <<29882, 19689>>,
       <<29883, 8411>>, <<29884, 8412>>, <<29885, 8413>>, <<29886, 8414>>, <<29887, 8415>>, <<29888, 8416>>,
       <<29889, 8417>>, <<29890, 8418>>, <<29891, 8419>>, <<29892, 8420>>, <<29893, 8421>>, <<29894, 8422>>,
       <<29895, 8423>>, <<29896, 8424>>, <<29897, 8425>>, <<29898, 8426>>, <<29899, 8427>>, <<29900, 8428>>,
       <<29901, 8429>>, <<29902, 8430>>, <<29903, 8431>>, <<29904, 8432>>, <<29905, 8433>>,
       <<29906, 19688>>, <<29907, 8434>>, <<29908, 8435>>, <<29909, 8436>>, <<29910, 8437>>,
       <<29911, 8438>>, <<29912, 8439>>, <<29913, 8440>>, <<29914, 8441>>, <<29915, 8442>>,
       <<29916, 10783>>, <<29917, 8443>>, <<29918, 21198>>, <<29919, 8444>>, <<29920, 21199>>,
       <<29921, 8445>>, <<29922, 13222>>, <<29923, 9100>>, <<29924, 13617>>, <<29925, 8446>>,
       <<29926, 14599>>, <<29927, 8447>>, <<29928, 8448>>, <<29929, 8449>>, <<29930, 8450>>,
       <<29931, 8451>>, <<29932, 8452>>, <<29933, 8453>>, <<29934, 14771>>, <<29935, 20063>>,
       <<29936, 8454>>, <<29937, 8455>>, <<29938, 8456>>, <<29939, 8551>>, <<29940, 20064>>,
       <<29941, 8552>>, <<29942, 13237>>, <<29943, 9827>>, <<29944, 8553>>, <<29945, 8554>>,
       <<29946, 8555>>, <<29947, 8556>>, <<29948, 8557>>, <<29949, 8558>>, <<29950, 8559>>,
       <<29951, 20065>>, <<29952, 8560>>, <<29953, 8561>>, <<29954, 8562>>, <<29955, 8563>>,
       <<29956, 16127>>, <<29957, 8564>>, <<29958, 8565>>, <<29959, 8566>>, <<29960, 8567>>,
       <<29961, 8568>>, <<29962, 8569>>, <<29963, 8570>>, <<29964, 8571>>, <<29965, 17665>>,
       <<29966, 8572>>, <<29967, 20066>>, <<29968, 8573>>, <<29969, 20067>>, <<29970, 8574>>,
       <<29971, 20068>>, <<29972, 8575>>, <<29973, 8576>>, <<29974, 8577>>, <<29975, 8578>>,
       <<29976, 10588>>, <<29977, 17972>>, <<29978, 13861>>, <<29979, 8579>>, <<29980, 14426>>,
       <<29981, 8580>>, <<29982, 8581>>, <<29983, 13866>>, <<29984, 8582>>, <<29985, 8583>>,
       <<29986, 8584>>, <<29987, 8585>>, <<29988, 8586>>, <<29989, 13867>>, <<29990, 8587>>,
       <<29991, 8588>>, <<29992, 15711>>, <<29993, 14162>>, <<29994, 8589>>, <<29995, 10552>>,
       <<29996, 21200>>, <<29997, 9250>>, <<29998, 8590>>, <<29999, 19120>>, <<30000, 14425>>,
       <<30001, 15717>>, <<30002, 11361>>, <<30003, 13850>>, <<30004, 8591>>, <<30005, 10047>>,
       <<30006, 8592>>, <<30007, 12874>>, <<30008, 10049>>, <<30009, 8593>>, <<30010, 20820>>,
       <<30011, 11129>>, <<30012, 8594>>, <<30013, 8595>>, <<30014, 19538>>, <<30015, 8596>>,
       <<30016, 20821>>, <<30017, 8597>>, <<30018, 8598>>, <<30019, 8599>>, <<30020, 8600>>,
       <<30021, 9605>>, <<30022, 8601>>, <<30023, 8602>>, <<30024, 20824>>, <<30025, 8603>>,
       <<30026, 8604>>, <<30027, 20823>>, <<30028, 11567>>, <<30029, 8605>>, <<30030, 20822>>,
       <<30031, 14749>>, <<30032, 8606>>, <<30033, 8607>>, <<30034, 8608>>, <<30035, 8609>>,
       <<30036, 13063>>, <<30037, 8610>>, <<30038, 8611>>, <<30039, 8612>>, <<30040, 8613>>,
       <<30041, 12340>>, <<30042, 17242>>, <<30043, 20825>>, <<30044, 15189>>, <<30045, 8614>>,
       <<30046, 8615>>, <<30047, 8616>>, <<30048, 8617>>, <<30049, 8618>>, <<30050, 8619>>, <<30051, 8620>>,
       <<30052, 8621>>, <<30053, 12498>>, <<30054, 13278>>, <<30055, 8622>>, <<30056, 8623>>,
       <<30057, 8624>>, <<30058, 10368>>, <<30059, 8625>>, <<30060, 8626>>, <<30061, 8627>>,
       <<30062, 8628>>, <<30063, 8629>>, <<30064, 8630>>, <<30065, 8631>>, <<30066, 20826>>,
       <<30067, 8632>>, <<30068, 9671>>, <<30069, 8633>>, <<30070, 8634>>, <<30071, 8635>>,
       <<30072, 11207>>, <<30073, 20827>>, <<30074, 8636>>, <<30075, 8637>>, <<30076, 8638>>,
       <<30077, 8639>>, <<30078, 8640>>, <<30079, 19536>>, <<30080, 8641>>, <<30081, 8642>>,
       <<30082, 8643>>, <<30083, 20828>>, <<30084, 8644>>, <<30085, 8645>>, <<30086, 11510>>,
       <<30087, 8646>>, <<30088, 8741>>, <<30089, 8742>>, <<30090, 8743>>, <<30091, 21442>>,
       <<30092, 8744>>, <<30093, 8745>>, <<30094, 8746>>, <<30095, 14038>>, <<30096, 8747>>,
       <<30097, 15527>>, <<30098, 21244>>, <<30099, 8748>>, <<30100, 21245>>, <<30101, 8749>>,
       <<30102, 21246>>, <<30103, 12294>>, <<30104, 8750>>, <<30105, 10623>>, <<30106, 11732>>,
       <<30107, 8751>>, <<30108, 8752>>, <<30109, 21248>>, <<30110, 8753>>, <<30111, 13033>>,
       <<30112, 21247>>, <<30113, 15377>>, <<30114, 8754>>, <<30115, 21250>>, <<30116, 9070>>,
       <<30117, 11570>>, <<30118, 8755>>, <<30119, 8756>>, <<30120, 8757>>, <<30121, 8758>>,
       <<30122, 8759>>, <<30123, 15549>>, <<30124, 21249>>, <<30125, 8760>>, <<30126, 9801>>,
       <<30127, 10428>>, <<30128, 21256>>, <<30129, 21255>>, <<30130, 13209>>, <<30131, 21251>>,
       <<30132, 21252>>, <<30133, 9821>>, <<30134, 8761>>, <<30135, 8762>>, <<30136, 21253>>,
       <<30137, 16134>>, <<30138, 8763>>, <<30139, 8764>>, <<30140, 14405>>, <<30141, 11736>>,
       <<30142, 11324>>, <<30143, 8765>>, <<30144, 8766>>, <<30145, 8767>>, <<30146, 21258>>,
       <<30147, 21257>>, <<30148, 21254>>, <<30149, 9407>>, <<30150, 8768>>, <<30151, 16248>>,
       <<30152, 15700>>, <<30153, 11709>>, <<30154, 13598>>, <<30155, 8769>>, <<30156, 8770>>,
       <<30157, 21260>>, <<30158, 8771>>, <<30159, 8772>>, <<30160, 8773>>, <<30161, 8774>>,
       <<30162, 15383>>, <<30163, 8775>>, <<30164, 16290>>, <<30165, 10985>>, <<30166, 21259>>,
       <<30167, 8776>>, <<30168, 10193>>, <<30169, 8777>>, <<30170, 8778>>, <<30171, 14556>>,
       <<30172, 8779>>, <<30173, 8780>>, <<30174, 13212>>, <<30175, 8781>>, <<30176, 8782>>,
       <<30177, 8783>>, <<30178, 12257>>, <<30179, 21261>>, <<30180, 21264>>, <<30181, 8784>>,
       <<30182, 21263>>, <<30183, 21266>>, <<30184, 21262>>, <<30185, 8785>>, <<30186, 11146>>,
       <<30187, 21265>>, <<30188, 8786>>, <<30189, 8787>>, <<30190, 8788>>, <<30191, 8789>>,
       <<30192, 14367>>, <<30193, 21268>>, <<30194, 8790>>, <<30195, 8791>>, <<30196, 9649>>,
       <<30197, 8792>>, <<30198, 8793>>, <<30199, 8794>>, <<30200, 8795>>, <<30201, 9268>>, <<30202, 8796>>,
       <<30203, 8797>>, <<30204, 21269>>, <<30205, 8798>>, <<30206, 8799>>, <<30207, 21270>>,
       <<30208, 21272>>, <<30209, 9851>>, <<30210, 8800>>, <<30211, 21267>>, <<30212, 8801>>,
       <<30213, 21273>>, <<30214, 8802>>, <<30215, 8803>>, <<30216, 8804>>, <<30217, 8805>>,
       <<30218, 21276>>, <<30219, 8806>>, <<30220, 21274>>, <<30221, 8807>>, <<30222, 8808>>,
       <<30223, 8809>>, <<30224, 21271>>, <<30225, 8810>>, <<30226, 8811>>, <<30227, 8812>>,
       <<30228, 8813>>, <<30229, 21279>>, <<30230, 8814>>, <<30231, 21275>>, <<30232, 21278>>,
       <<30233, 21280>>, <<30234, 8815>>, <<30235, 21377>>, <<30236, 8816>>, <<30237, 8817>>,
       <<30238, 8818>>, <<30239, 14759>>, <<30240, 21380>>, <<30241, 8819>>, <<30242, 21379>>,
       <<30243, 8820>>, <<30244, 12342>>, <<30245, 21277>>, <<30246, 14027>>, <<30247, 8821>>,
       <<30248, 8822>>, <<30249, 9867>>, <<30250, 9297>>, <<30251, 14363>>, <<30252, 8823>>,
       <<30253, 21382>>, <<30254, 8824>>, <<30255, 8825>>, <<30256, 21383>>, <<30257, 8826>>,
       <<30258, 8827>>, <<30259, 21388>>, <<30260, 16102>>, <<30261, 21385>>, <<30262, 8828>>,
       <<30263, 8829>>, <<30264, 13605>>, <<30265, 8830>>, <<30266, 8831>>, <<30267, 8832>>,
       <<30268, 21378>>, <<30269, 8833>>, <<30270, 21387>>, <<30271, 21384>>, <<30272, 21381>>,
       <<30273, 8834>>, <<30274, 8835>>, <<30275, 21386>>, <<30276, 8836>>, <<30277, 8931>>,
       <<30278, 8932>>, <<30279, 8933>>, <<30280, 8934>>, <<30281, 8935>>, <<30282, 8936>>, <<30283, 8937>>,
       <<30284, 9035>>, <<30285, 21389>>, <<30286, 8938>>, <<30287, 8939>>, <<30288, 8940>>,
       <<30289, 8941>>, <<30290, 8942>>, <<30291, 8943>>, <<30292, 21391>>, <<30293, 8944>>,
       <<30294, 21393>>, <<30295, 8945>>, <<30296, 8946>>, <<30297, 8947>>, <<30298, 8948>>,
       <<30299, 8949>>, <<30300, 21392>>, <<30301, 8950>>, <<30302, 21390>>, <<30303, 8951>>,
       <<30304, 8952>>, <<30305, 8953>>, <<30306, 8954>>, <<30307, 15298>>, <<30308, 8955>>,
       <<30309, 8956>>, <<30310, 8957>>, <<30311, 8958>>, <<30312, 8959>>, <<30313, 8960>>, <<30314, 8961>>,
       <<30315, 21394>>, <<30316, 8962>>, <<30317, 8963>>, <<30318, 8964>>, <<30319, 21395>>,
       <<30320, 8965>>, <<30321, 8966>>, <<30322, 8967>>, <<30323, 8968>>, <<30324, 8969>>, <<30325, 8970>>,
       <<30326, 8971>>, <<30327, 8972>>, <<30328, 10815>>, <<30329, 8973>>, <<30330, 8974>>,
       <<30331, 10015>>, <<30332, 8975>>, <<30333, 9081>>, <<30334, 9083>>, <<30335, 8976>>,
       <<30336, 8977>>, <<30337, 8978>>, <<30338, 15943>>, <<30339, 8979>>, <<30340, 10012>>,
       <<30341, 8980>>, <<30342, 11548>>, <<30343, 11158>>, <<30344, 21193>>, <<30345, 8981>>,
       <<30346, 8982>>, <<30347, 10608>>, <<30348, 8983>>, <<30349, 8984>>, <<30350, 21194>>,
       <<30351, 8985>>, <<30352, 8986>>, <<30353, 9034>>, <<30354, 8987>>, <<30355, 21195>>,
       <<30356, 8988>>, <<30357, 8989>>, <<30358, 14614>>, <<30359, 8990>>, <<30360, 8991>>,
       <<30361, 21196>>, <<30362, 8992>>, <<30363, 8993>>, <<30364, 8994>>, <<30365, 8995>>,
       <<30366, 8996>>, <<30367, 8997>>, <<30368, 8998>>, <<30369, 8999>>, <<30370, 9000>>, <<30371, 9001>>,
       <<30372, 21197>>, <<30373, 9002>>, <<30374, 9003>>, <<30375, 9004>>, <<30376, 9005>>,
       <<30377, 9006>>, <<30378, 9007>>, <<30379, 9008>>, <<30380, 9009>>, <<30381, 9010>>,
       <<30382, 13210>>, <<30383, 9011>>, <<30384, 9012>>, <<30385, 16315>>, <<30386, 21444>>,
       <<30387, 9013>>, <<30388, 21445>>, <<30389, 9014>>, <<30390, 9015>>, <<30391, 9016>>,
       <<30392, 9017>>, <<30393, 9018>>, <<30394, 9019>>, <<30395, 9020>>, <<30396, 9021>>, <<30397, 9022>>,
       <<30398, 9023>>, <<30399, 12719>>, <<30400, 9024>>, <<30401, 9025>>, <<30402, 15735>>,
       <<30403, 9026>>, <<30404, 9121>>, <<30405, 16295>>, <<30406, 13088>>, <<30407, 9122>>,
       <<30408, 15691>>, <<30409, 9123>>, <<30410, 15556>>, <<30411, 9124>>, <<30412, 9125>>,
       <<30413, 20839>>, <<30414, 9053>>, <<30415, 16077>>, <<30416, 15342>>, <<30417, 11370>>,
       <<30418, 10974>>, <<30419, 9126>>, <<30420, 11964>>, <<30421, 9127>>, <<30422, 10585>>,
       <<30423, 10009>>, <<30424, 13060>>, <<30425, 9128>>, <<30426, 9129>>, <<30427, 13968>>,
       <<30428, 9130>>, <<30429, 9131>>, <<30430, 9132>>, <<30431, 12679>>, <<30432, 9133>>,
       <<30433, 9134>>, <<30434, 9135>>, <<30435, 9136>>, <<30436, 9137>>, <<30437, 20840>>,
       <<30438, 9138>>, <<30439, 9139>>, <<30440, 9140>>, <<30441, 9141>>, <<30442, 9142>>, <<30443, 9143>>,
       <<30444, 9144>>, <<30445, 9145>>, <<30446, 12857>>, <<30447, 10168>>, <<30448, 9146>>,
       <<30449, 20692>>, <<30450, 12640>>, <<30451, 9147>>, <<30452, 16263>>, <<30453, 9148>>,
       <<30454, 9149>>, <<30455, 9150>>, <<30456, 14980>>, <<30457, 20695>>, <<30458, 9151>>,
       <<30459, 9152>>, <<30460, 13062>>, <<30461, 9153>>, <<30462, 10226>>, <<30463, 9154>>,
       <<30464, 9155>>, <<30465, 13967>>, <<30466, 9156>>, <<30467, 9157>>, <<30468, 20693>>,
       <<30469, 9158>>, <<30470, 9159>>, <<30471, 20696>>, <<30472, 20697>>, <<30473, 12664>>,
       <<30474, 9160>>, <<30475, 11896>>, <<30476, 9161>>, <<30477, 20694>>, <<30478, 9162>>,
       <<30479, 9163>>, <<30480, 9164>>, <<30481, 9165>>, <<30482, 9166>>, <<30483, 9167>>, <<30484, 9168>>,
       <<30485, 9169>>, <<30486, 9170>>, <<30487, 9171>>, <<30488, 9172>>, <<30489, 20700>>,
       <<30490, 20698>>, <<30491, 9173>>, <<30492, 9174>>, <<30493, 9175>>, <<30494, 9176>>,
       <<30495, 16126>>, <<30496, 12699>>, <<30497, 9177>>, <<30498, 20699>>, <<30499, 9178>>,
       <<30500, 9179>>, <<30501, 9180>>, <<30502, 20702>>, <<30503, 9181>>, <<30504, 16059>>,
       <<30505, 15299>>, <<30506, 9182>>, <<30507, 9183>>, <<30508, 9184>>, <<30509, 20701>>,
       <<30510, 9185>>, <<30511, 12684>>, <<30512, 9186>>, <<30513, 9187>>, <<30514, 9188>>,
       <<30515, 9189>>, <<30516, 9190>>, <<30517, 20703>>, <<30518, 11960>>, <<30519, 11762>>,
       <<30520, 20704>>, <<30521, 9191>>, <<30522, 14433>>, <<30523, 9192>>, <<30524, 15355>>,
       <<30525, 9193>>, <<30526, 9194>>, <<30527, 9195>>, <<30528, 16473>>, <<30529, 16142>>,
       <<30530, 9196>>, <<30531, 20708>>, <<30532, 9197>>, <<30533, 9198>>, <<30534, 9199>>,
       <<30535, 20707>>, <<30536, 9200>>, <<30537, 9201>>, <<30538, 9202>>, <<30539, 9203>>,
       <<30540, 9204>>, <<30541, 9205>>, <<30542, 9206>>, <<30543, 9207>>, <<30544, 20705>>,
       <<30545, 20706>>, <<30546, 9208>>, <<30547, 9209>>, <<30548, 9210>>, <<30549, 9211>>,
       <<30550, 9212>>, <<30551, 9213>>, <<30552, 9214>>, <<30553, 9215>>, <<30554, 20709>>,
       <<30555, 11692>>, <<30556, 9216>>, <<30557, 9311>>, <<30558, 9312>>, <<30559, 9313>>,
       <<30560, 9314>>, <<30561, 14171>>, <<30562, 20807>>, <<30563, 10195>>, <<30564, 9315>>,
       <<30565, 20808>>, <<30566, 12858>>, <<30567, 9316>>, <<30568, 20710>>, <<30569, 9317>>,
       <<30570, 9318>>, <<30571, 11558>>, <<30572, 9445>>, <<30573, 9319>>, <<30574, 9320>>,
       <<30575, 9321>>, <<30576, 9322>>, <<30577, 9323>>, <<30578, 9324>>, <<30579, 9325>>, <<30580, 9326>>,
       <<30581, 9327>>, <<30582, 9328>>, <<30583, 9329>>, <<30584, 9330>>, <<30585, 10201>>,
       <<30586, 9331>>, <<30587, 9332>>, <<30588, 9333>>, <<30589, 20811>>, <<30590, 16652>>,
       <<30591, 20809>>, <<30592, 20812>>, <<30593, 9334>>, <<30594, 9335>>, <<30595, 9336>>,
       <<30596, 12709>>, <<30597, 9678>>, <<30598, 9337>>, <<30599, 9338>>, <<30600, 9339>>,
       <<30601, 9340>>, <<30602, 9341>>, <<30603, 9342>>, <<30604, 20813>>, <<30605, 20810>>,
       <<30606, 14941>>, <<30607, 9343>>, <<30608, 9344>>, <<30609, 20814>>, <<30610, 12533>>,
       <<30611, 9345>>, <<30612, 9346>>, <<30613, 9347>>, <<30614, 9348>>, <<30615, 9349>>, <<30616, 9350>>,
       <<30617, 9351>>, <<30618, 9352>>, <<30619, 9353>>, <<30620, 9354>>, <<30621, 9355>>, <<30622, 9356>>,
       <<30623, 20815>>, <<30624, 20816>>, <<30625, 9357>>, <<30626, 17777>>, <<30627, 9358>>,
       <<30628, 9359>>, <<30629, 13225>>, <<30630, 9360>>, <<30631, 13434>>, <<30632, 9361>>,
       <<30633, 16331>>, <<30634, 10017>>, <<30635, 9362>>, <<30636, 14174>>, <<30637, 9363>>,
       <<30638, 9364>>, <<30639, 9365>>, <<30640, 20817>>, <<30641, 9366>>, <<30642, 9367>>,
       <<30643, 14547>>, <<30644, 9368>>, <<30645, 20818>>, <<30646, 9369>>, <<30647, 9370>>,
       <<30648, 9371>>, <<30649, 9372>>, <<30650, 9373>>, <<30651, 16072>>, <<30652, 9374>>,
       <<30653, 20819>>, <<30654, 9375>>, <<30655, 22362>>, <<30656, 9376>>, <<30657, 9377>>,
       <<30658, 9378>>, <<30659, 9379>>, <<30660, 9380>>, <<30661, 9381>>, <<30662, 9382>>, <<30663, 9383>>,
       <<30664, 9384>>, <<30665, 9385>>, <<30666, 9386>>, <<30667, 9387>>, <<30668, 9388>>,
       <<30669, 17235>>, <<30670, 9389>>, <<30671, 9390>>, <<30672, 9391>>, <<30673, 9392>>,
       <<30674, 9393>>, <<30675, 9394>>, <<30676, 9395>>, <<30677, 9396>>, <<30678, 9397>>, <<30679, 9789>>,
       <<30680, 9398>>, <<30681, 9399>>, <<30682, 9400>>, <<30683, 12648>>, <<30684, 21446>>,
       <<30685, 9401>>, <<30686, 9402>>, <<30687, 9403>>, <<30688, 9404>>, <<30689, 9405>>,
       <<30690, 13990>>, <<30691, 15537>>, <<30692, 9406>>, <<30693, 16256>>, <<30694, 9501>>,
       <<30695, 21078>>, <<30696, 9502>>, <<30697, 11742>>, <<30698, 9503>>, <<30699, 11531>>,
       <<30700, 21079>>, <<30701, 10210>>, <<30702, 9037>>, <<30703, 9504>>, <<30704, 9505>>,
       <<30705, 9506>>, <<30706, 9507>>, <<30707, 13981>>, <<30708, 9508>>, <<30709, 9509>>,
       <<30710, 20638>>, <<30711, 9510>>, <<30712, 20639>>, <<30713, 9511>>, <<30714, 9512>>,
       <<30715, 9513>>, <<30716, 9514>>, <<30717, 14815>>, <<30718, 10371>>, <<30719, 11959>>,
       <<30720, 20640>>, <<30721, 12521>>, <<30722, 13792>>, <<30723, 9515>>, <<30724, 9516>>,
       <<30725, 9517>>, <<30726, 9518>>, <<30727, 9519>>, <<30728, 9520>>, <<30729, 20641>>,
       <<30730, 9521>>, <<30731, 9522>>, <<30732, 13292>>, <<30733, 11895>>, <<30734, 9523>>,
       <<30735, 9524>>, <<30736, 9525>>, <<30737, 20644>>, <<30738, 13104>>, <<30739, 9526>>,
       <<30740, 15344>>, <<30741, 9527>>, <<30742, 16445>>, <<30743, 20642>>, <<30744, 20643>>,
       <<30745, 9528>>, <<30746, 15362>>, <<30747, 9529>>, <<30748, 20647>>, <<30749, 20648>>,
       <<30750, 9530>>, <<30751, 20652>>, <<30752, 9531>>, <<30753, 9532>>, <<30754, 9533>>,
       <<30755, 20656>>, <<30756, 9534>>, <<30757, 20654>>, <<30758, 20662>>, <<30759, 16128>>,
       <<30760, 9535>>, <<30761, 20657>>, <<30762, 9536>>, <<30763, 9537>>, <<30764, 20655>>,
       <<30765, 20646>>, <<30766, 9538>>, <<30767, 9539>>, <<30768, 13089>>, <<30769, 9540>>,
       <<30770, 9541>>, <<30771, 9542>>, <<30772, 13244>>, <<30773, 9543>>, <<30774, 9544>>,
       <<30775, 13849>>, <<30776, 15916>>, <<30777, 20649>>, <<30778, 20650>>, <<30779, 20651>>,
       <<30780, 20653>>, <<30781, 9545>>, <<30782, 12155>>, <<30783, 9546>>, <<30784, 9787>>,
       <<30785, 9547>>, <<30786, 9548>>, <<30787, 9549>>, <<30788, 9550>>, <<30789, 10808>>,
       <<30790, 9551>>, <<30791, 20664>>, <<30792, 9552>>, <<30793, 9553>>, <<30794, 9554>>,
       <<30795, 9555>>, <<30796, 20665>>, <<30797, 9556>>, <<30798, 20658>>, <<30799, 9557>>,
       <<30800, 20663>>, <<30801, 9558>>, <<30802, 14814>>, <<30803, 9559>>, <<30804, 9560>>,
       <<30805, 14178>>, <<30806, 20660>>, <<30807, 20661>>, <<30808, 9561>>, <<30809, 9562>>,
       <<30810, 9563>>, <<30811, 9564>>, <<30812, 9565>>, <<30813, 15001>>, <<30814, 9566>>,
       <<30815, 9567>>, <<30816, 9568>>, <<30817, 9569>>, <<30818, 9570>>, <<30819, 9571>>, <<30820, 9572>>,
       <<30821, 9573>>, <<30822, 9574>>, <<30823, 9575>>, <<30824, 9576>>, <<30825, 9577>>,
       <<30826, 20666>>, <<30827, 12338>>, <<30828, 15694>>, <<30829, 20659>>, <<30830, 13609>>,
       <<30831, 9578>>, <<30832, 9579>>, <<30833, 9580>>, <<30834, 9581>>, <<30835, 9582>>, <<30836, 9583>>,
       <<30837, 9584>>, <<30838, 9585>>, <<30839, 11385>>, <<30840, 9586>>, <<30841, 9587>>,
       <<30842, 9588>>, <<30843, 9589>>, <<30844, 13096>>, <<30845, 9590>>, <<30846, 9591>>,
       <<30847, 9592>>, <<30848, 9593>>, <<30849, 9594>>, <<30850, 9595>>, <<30851, 9596>>, <<30852, 9691>>,
       <<30853, 9692>>, <<30854, 9693>>, <<30855, 20670>>, <<30856, 9694>>, <<30857, 10055>>,
       <<30858, 9695>>, <<30859, 9696>>, <<30860, 12467>>, <<30861, 9039>>, <<30862, 14229>>,
       <<30863, 9697>>, <<30864, 9698>>, <<30865, 9230>>, <<30866, 9699>>, <<30867, 20668>>,
       <<30868, 9700>>, <<30869, 9701>>, <<30870, 9702>>, <<30871, 14611>>, <<30872, 10042>>,
       <<30873, 9703>>, <<30874, 20669>>, <<30875, 20667>>, <<30876, 20671>>, <<30877, 9704>>,
       <<30878, 9705>>, <<30879, 10066>>, <<30880, 9706>>, <<30881, 20672>>, <<30882, 9707>>,
       <<30883, 20673>>, <<30884, 9708>>, <<30885, 20676>>, <<30886, 9709>>, <<30887, 9260>>,
       <<30888, 9710>>, <<30889, 9711>>, <<30890, 9712>>, <<30891, 9713>>, <<30892, 9714>>, <<30893, 9715>>,
       <<30894, 9716>>, <<30895, 9717>>, <<30896, 13102>>, <<30897, 11384>>, <<30898, 20674>>,
       <<30899, 14374>>, <<30900, 9480>>, <<30901, 9718>>, <<30902, 9719>>, <<30903, 9720>>,
       <<30904, 9721>>, <<30905, 20675>>, <<30906, 9722>>, <<30907, 9723>>, <<30908, 9724>>,
       <<30909, 9725>>, <<30910, 12901>>, <<30911, 9726>>, <<30912, 9727>>, <<30913, 9823>>,
       <<30914, 9728>>, <<30915, 9729>>, <<30916, 9730>>, <<30917, 9111>>, <<30918, 9731>>, <<30919, 9732>>,
       <<30920, 9733>>, <<30921, 20679>>, <<30922, 12124>>, <<30923, 9858>>, <<30924, 9734>>,
       <<30925, 9735>>, <<30926, 9736>>, <<30927, 9737>>, <<30928, 13061>>, <<30929, 9738>>,
       <<30930, 9739>>, <<30931, 9740>>, <<30932, 20677>>, <<30933, 11912>>, <<30934, 9741>>,
       <<30935, 9742>>, <<30936, 9743>>, <<30937, 20678>>, <<30938, 9744>>, <<30939, 9745>>,
       <<30940, 9746>>, <<30941, 9747>>, <<30942, 9748>>, <<30943, 9749>>, <<30944, 9750>>, <<30945, 9751>>,
       <<30946, 9752>>, <<30947, 9753>>, <<30948, 9754>>, <<30949, 9755>>, <<30950, 9756>>, <<30951, 9757>>,
       <<30952, 12831>>, <<30953, 9758>>, <<30954, 9759>>, <<30955, 9760>>, <<30956, 20680>>,
       <<30957, 9761>>, <<30958, 9762>>, <<30959, 9763>>, <<30960, 9764>>, <<30961, 9765>>,
       <<30962, 20681>>, <<30963, 9766>>, <<30964, 20683>>, <<30965, 9767>>, <<30966, 9768>>,
       <<30967, 12311>>, <<30968, 9769>>, <<30969, 9770>>, <<30970, 11155>>, <<30971, 9771>>,
       <<30972, 9772>>, <<30973, 9773>>, <<30974, 9774>>, <<30975, 9775>>, <<30976, 9776>>,
       <<30977, 11520>>, <<30978, 9777>>, <<30979, 9778>>, <<30980, 9779>>, <<30981, 20682>>,
       <<30982, 9780>>, <<30983, 9781>>, <<30984, 9782>>, <<30985, 9783>>, <<30986, 9784>>, <<30987, 9785>>,
       <<30988, 9786>>, <<30989, 9881>>, <<30990, 9882>>, <<30991, 9883>>, <<30992, 9884>>, <<30993, 9885>>,
       <<30994, 9886>>, <<30995, 20684>>, <<30996, 9887>>, <<30997, 9888>>, <<30998, 9889>>,
       <<30999, 9890>>, <<31000, 9891>>, <<31001, 9892>>, <<31002, 9893>>, <<31003, 9894>>, <<31004, 9895>>,
       <<31005, 9896>>, <<31006, 20686>>, <<31007, 9897>>, <<31008, 9898>>, <<31009, 9899>>,
       <<31010, 9900>>, <<31011, 9901>>, <<31012, 20685>>, <<31013, 9902>>, <<31014, 9903>>,
       <<31015, 9904>>, <<31016, 9905>>, <<31017, 9906>>, <<31018, 9907>>, <<31019, 9908>>, <<31020, 9909>>,
       <<31021, 9910>>, <<31022, 9911>>, <<31023, 9912>>, <<31024, 9913>>, <<31025, 9914>>, <<31026, 9915>>,
       <<31027, 9916>>, <<31028, 20687>>, <<31029, 9917>>, <<31030, 9918>>, <<31031, 9919>>,
       <<31032, 9920>>, <<31033, 9921>>, <<31034, 13996>>, <<31035, 20500>>, <<31036, 12147>>,
       <<31037, 9922>>, <<31038, 13847>>, <<31039, 9923>>, <<31040, 20501>>, <<31041, 13284>>,
       <<31042, 9924>>, <<31043, 9925>>, <<31044, 9926>>, <<31045, 9927>>, <<31046, 20502>>,
       <<31047, 9928>>, <<31048, 13283>>, <<31049, 20503>>, <<31050, 9929>>, <<31051, 9930>>,
       <<31052, 9931>>, <<31053, 9932>>, <<31054, 9933>>, <<31055, 9934>>, <<31056, 9935>>, <<31057, 9936>>,
       <<31058, 9937>>, <<31059, 20506>>, <<31060, 9938>>, <<31061, 9939>>, <<31062, 16506>>,
       <<31063, 20509>>, <<31064, 9940>>, <<31065, 9941>>, <<31066, 20507>>, <<31067, 20504>>,
       <<31068, 20505>>, <<31069, 16439>>, <<31070, 13857>>, <<31071, 14234>>, <<31072, 20510>>,
       <<31073, 9942>>, <<31074, 20508>>, <<31075, 9943>>, <<31076, 9944>>, <<31077, 14989>>,
       <<31078, 9945>>, <<31079, 20512>>, <<31080, 13223>>, <<31081, 9946>>, <<31082, 9947>>,
       <<31083, 9948>>, <<31084, 9949>>, <<31085, 11338>>, <<31086, 9950>>, <<31087, 20511>>,
       <<31088, 9951>>, <<31089, 9952>>, <<31090, 9953>>, <<31091, 9954>>, <<31092, 9955>>, <<31093, 9956>>,
       <<31094, 9957>>, <<31095, 10003>>, <<31096, 11202>>, <<31097, 9958>>, <<31098, 20513>>,
       <<31099, 9959>>, <<31100, 9960>>, <<31101, 9961>>, <<31102, 9962>>, <<31103, 9963>>,
       <<31104, 16903>>, <<31105, 11587>>, <<31106, 9964>>, <<31107, 9965>>, <<31108, 12473>>,
       <<31109, 20514>>, <<31110, 9966>>, <<31111, 9967>>, <<31112, 9968>>, <<31113, 9969>>,
       <<31114, 20515>>, <<31115, 9970>>, <<31116, 9971>>, <<31117, 9972>>, <<31118, 9973>>,
       <<31119, 10549>>, <<31120, 9974>>, <<31121, 9975>>, <<31122, 9976>>, <<31123, 10071>>,
       <<31124, 10072>>, <<31125, 10073>>, <<31126, 10074>>, <<31127, 10075>>, <<31128, 10076>>,
       <<31129, 10077>>, <<31130, 20516>>, <<31131, 10078>>, <<31132, 10079>>, <<31133, 10080>>,
       <<31134, 10081>>, <<31135, 10082>>, <<31136, 10083>>, <<31137, 10084>>, <<31138, 10085>>,
       <<31139, 10086>>, <<31140, 10087>>, <<31141, 10088>>, <<31142, 10089>>, <<31143, 20517>>,
       <<31144, 10090>>, <<31145, 10091>>, <<31146, 10092>>, <<31147, 10093>>, <<31148, 10094>>,
       <<31149, 10095>>, <<31150, 10096>>, <<31151, 10097>>, <<31152, 10098>>, <<31153, 10099>>,
       <<31154, 10100>>, <<31155, 20518>>, <<31156, 10101>>, <<31157, 10102>>, <<31158, 10103>>,
       <<31159, 10104>>, <<31160, 10105>>, <<31161, 15753>>, <<31162, 16640>>, <<31163, 12141>>,
       <<31164, 10106>>, <<31165, 13457>>, <<31166, 10970>>, <<31167, 10107>>, <<31168, 15173>>,
       <<31169, 14185>>, <<31170, 10108>>, <<31171, 14562>>, <<31172, 10109>>, <<31173, 10110>>,
       <<31174, 10595>>, <<31175, 10111>>, <<31176, 10112>>, <<31177, 9308>>, <<31178, 10113>>,
       <<31179, 13475>>, <<31180, 10114>>, <<31181, 16300>>, <<31182, 10115>>, <<31183, 10116>>,
       <<31184, 10117>>, <<31185, 11914>>, <<31186, 12711>>, <<31187, 10118>>, <<31188, 10119>>,
       <<31189, 21081>>, <<31190, 10120>>, <<31191, 10121>>, <<31192, 12692>>, <<31193, 10122>>,
       <<31194, 10123>>, <<31195, 10124>>, <<31196, 10125>>, <<31197, 10126>>, <<31198, 10127>>,
       <<31199, 16502>>, <<31200, 10128>>, <<31201, 10129>>, <<31202, 10130>>, <<31203, 21083>>,
       <<31204, 9647>>, <<31205, 10131>>, <<31206, 13452>>, <<31207, 15373>>, <<31208, 10132>>,
       <<31209, 16286>>, <<31210, 10133>>, <<31211, 21084>>, <<31212, 10134>>, <<31213, 21082>>,
       <<31214, 10135>>, <<31215, 11209>>, <<31216, 9634>>, <<31217, 10136>>, <<31218, 10137>>,
       <<31219, 10138>>, <<31220, 10139>>, <<31221, 10140>>, <<31222, 10141>>, <<31223, 10142>>,
       <<31224, 11549>>, <<31225, 10143>>, <<31226, 10144>>, <<31227, 15524>>, <<31228, 10145>>,
       <<31229, 11180>>, <<31230, 10146>>, <<31231, 10147>>, <<31232, 14917>>, <<31233, 10148>>,
       <<31234, 21088>>, <<31235, 21087>>, <<31236, 10149>>, <<31237, 10150>>, <<31238, 21085>>,
       <<31239, 10151>>, <<31240, 10152>>, <<31241, 10153>>, <<31242, 10154>>, <<31243, 9640>>,
       <<31244, 10155>>, <<31245, 13828>>, <<31246, 14172>>, <<31247, 10156>>, <<31248, 10157>>,
       <<31249, 10158>>, <<31250, 10159>>, <<31251, 10160>>, <<31252, 21090>>, <<31253, 10161>>,
       <<31254, 10162>>, <<31255, 9088>>, <<31256, 10163>>, <<31257, 10164>>, <<31258, 16287>>,
       <<31259, 10165>>, <<31260, 10166>>, <<31261, 10261>>, <<31262, 21089>>, <<31263, 10262>>,
       <<31264, 9673>>, <<31265, 10263>>, <<31266, 10264>>, <<31267, 22379>>, <<31268, 10265>>,
       <<31269, 10266>>, <<31270, 10267>>, <<31271, 10268>>, <<31272, 10269>>, <<31273, 10270>>,
       <<31274, 10271>>, <<31275, 10272>>, <<31276, 10273>>, <<31277, 10274>>, <<31278, 10275>>,
       <<31279, 10276>>, <<31280, 10277>>, <<31281, 10278>>, <<31282, 10279>>, <<31283, 14766>>,
       <<31284, 10280>>, <<31285, 10281>>, <<31286, 10282>>, <<31287, 21188>>, <<31288, 10283>>,
       <<31289, 21187>>, <<31290, 10284>>, <<31291, 10006>>, <<31292, 11364>>, <<31293, 11208>>,
       <<31294, 10285>>, <<31295, 10615>>, <<31296, 10286>>, <<31297, 10287>>, <<31298, 10288>>,
       <<31299, 10289>>, <<31300, 10290>>, <<31301, 10291>>, <<31302, 12860>>, <<31303, 10292>>,
       <<31304, 10293>>, <<31305, 10294>>, <<31306, 10295>>, <<31307, 10296>>, <<31308, 10297>>,
       <<31309, 10298>>, <<31310, 10299>>, <<31311, 10300>>, <<31312, 10301>>, <<31313, 21189>>,
       <<31314, 10302>>, <<31315, 10303>>, <<31316, 10304>>, <<31317, 10305>>, <<31318, 10306>>,
       <<31319, 14231>>, <<31320, 10307>>, <<31321, 10308>>, <<31322, 10309>>, <<31323, 10310>>,
       <<31324, 10311>>, <<31325, 10312>>, <<31326, 10313>>, <<31327, 10314>>, <<31328, 10315>>,
       <<31329, 10316>>, <<31330, 10317>>, <<31331, 10318>>, <<31332, 10319>>, <<31333, 10320>>,
       <<31334, 10321>>, <<31335, 10322>>, <<31336, 10323>>, <<31337, 10324>>, <<31338, 10325>>,
       <<31339, 10326>>, <<31340, 10327>>, <<31341, 10328>>, <<31342, 10329>>, <<31343, 10330>>,
       <<31344, 21192>>, <<31345, 10331>>, <<31346, 10332>>, <<31347, 10333>>, <<31348, 15304>>,
       <<31349, 10334>>, <<31350, 11717>>, <<31351, 13474>>, <<31352, 21398>>, <<31353, 21399>>,
       <<31354, 11929>>, <<31355, 10335>>, <<31356, 10336>>, <<31357, 10337>>, <<31358, 10338>>,
       <<31359, 9795>>, <<31360, 21400>>, <<31361, 14563>>, <<31362, 10339>>, <<31363, 13448>>,
       <<31364, 16069>>, <<31365, 10340>>, <<31366, 21401>>, <<31367, 10341>>, <<31368, 21402>>,
       <<31369, 10342>>, <<31370, 10343>>, <<31371, 10344>>, <<31372, 10345>>, <<31373, 13443>>,
       <<31374, 10346>>, <<31375, 10347>>, <<31376, 10348>>, <<31377, 15490>>, <<31378, 16293>>,
       <<31379, 10349>>, <<31380, 10350>>, <<31381, 21403>>, <<31382, 11545>>, <<31383, 9802>>,
       <<31384, 11715>>, <<31385, 10351>>, <<31386, 10352>>, <<31387, 10353>>, <<31388, 9846>>,
       <<31389, 14775>>, <<31390, 10354>>, <<31391, 11939>>, <<31392, 21405>>, <<31393, 10355>>,
       <<31394, 10356>>, <<31395, 10451>>, <<31396, 10452>>, <<31397, 11966>>, <<31398, 21404>>,
       <<31399, 10453>>, <<31400, 21407>>, <<31401, 10454>>, <<31402, 10455>>, <<31403, 10456>>,
       <<31404, 21406>>, <<31405, 21408>>, <<31406, 10457>>, <<31407, 10458>>, <<31408, 10459>>,
       <<31409, 10460>>, <<31410, 10461>>, <<31411, 21409>>, <<31412, 10462>>, <<31413, 10463>>,
       <<31414, 10464>>, <<31415, 10465>>, <<31416, 10466>>, <<31417, 10467>>, <<31418, 10468>>,
       <<31419, 10469>>, <<31420, 10470>>, <<31421, 10471>>, <<31422, 10472>>, <<31423, 12350>>,
       <<31424, 10473>>, <<31425, 10474>>, <<31426, 10475>>, <<31427, 10476>>, <<31428, 10477>>,
       <<31429, 10478>>, <<31430, 10479>>, <<31431, 10480>>, <<31432, 10481>>, <<31433, 10482>>,
       <<31434, 10483>>, <<31435, 12258>>, <<31436, 10484>>, <<31437, 10485>>, <<31438, 10486>>,
       <<31439, 10487>>, <<31440, 10488>>, <<31441, 10489>>, <<31442, 10490>>, <<31443, 10491>>,
       <<31444, 10492>>, <<31445, 10493>>, <<31446, 14056>>, <<31447, 10494>>, <<31448, 10495>>,
       <<31449, 16086>>, <<31450, 10496>>, <<31451, 10497>>, <<31452, 10498>>, <<31453, 10499>>,
       <<31454, 11712>>, <<31455, 11711>>, <<31456, 16090>>, <<31457, 10500>>, <<31458, 10501>>,
       <<31459, 11878>>, <<31460, 10502>>, <<31461, 14551>>, <<31462, 21397>>, <<31463, 10503>>,
       <<31464, 10504>>, <<31465, 10505>>, <<31466, 10506>>, <<31467, 10507>>, <<31468, 10508>>,
       <<31469, 11559>>, <<31470, 10509>>, <<31471, 10209>>, <<31472, 10510>>, <<31473, 10511>>,
       <<31474, 10512>>, <<31475, 10513>>, <<31476, 10514>>, <<31477, 10515>>, <<31478, 10516>>,
       <<31479, 10517>>, <<31480, 10518>>, <<31481, 16327>>, <<31482, 21791>>, <<31483, 10519>>,
       <<31484, 10520>>, <<31485, 21792>>, <<31486, 10521>>, <<31487, 10591>>, <<31488, 10522>>,
       <<31489, 10523>>, <<31490, 10524>>, <<31491, 21794>>, <<31492, 21795>>, <<31493, 10525>>,
       <<31494, 9068>>, <<31495, 10526>>, <<31496, 21793>>, <<31497, 10527>>, <<31498, 21797>>,
       <<31499, 14237>>, <<31500, 10528>>, <<31501, 10529>>, <<31502, 10530>>, <<31503, 21799>>,
       <<31504, 10531>>, <<31505, 15112>>, <<31506, 10532>>, <<31507, 10533>>, <<31508, 9258>>,
       <<31509, 21796>>, <<31510, 10534>>, <<31511, 10535>>, <<31512, 10536>>, <<31513, 21803>>,
       <<31514, 10537>>, <<31515, 10025>>, <<31516, 10538>>, <<31517, 10539>>, <<31518, 21811>>,
       <<31519, 10540>>, <<31520, 21806>>, <<31521, 10541>>, <<31522, 10542>>, <<31523, 10543>>,
       <<31524, 21808>>, <<31525, 21807>>, <<31526, 10447>>, <<31527, 10544>>, <<31528, 9247>>,
       <<31529, 10545>>, <<31530, 21802>>, <<31531, 21798>>, <<31532, 10034>>, <<31533, 10546>>,
       <<31534, 21804>>, <<31535, 10641>>, <<31536, 10642>>, <<31537, 21805>>, <<31538, 10643>>,
       <<31539, 21809>>, <<31540, 10644>>, <<31541, 10645>>, <<31542, 10646>>, <<31543, 10647>>,
       <<31544, 21801>>, <<31545, 10648>>, <<31546, 11373>>, <<31547, 10649>>, <<31548, 12349>>,
       <<31549, 10650>>, <<31550, 21810>>, <<31551, 10651>>, <<31552, 10652>>, <<31553, 10653>>,
       <<31554, 10654>>, <<31555, 10655>>, <<31556, 10656>>, <<31557, 21814>>, <<31558, 10657>>,
       <<31559, 21800>>, <<31560, 10658>>, <<31561, 10016>>, <<31562, 10659>>, <<31563, 11574>>,
       <<31564, 21816>>, <<31565, 10660>>, <<31566, 10661>>, <<31567, 10360>>, <<31568, 11956>>,
       <<31569, 16340>>, <<31570, 14554>>, <<31571, 10662>>, <<31572, 9866>>, <<31573, 10663>>,
       <<31574, 9469>>, <<31575, 10664>>, <<31576, 21812>>, <<31577, 10665>>, <<31578, 21813>>,
       <<31579, 13800>>, <<31580, 10666>>, <<31581, 21817>>, <<31582, 10667>>, <<31583, 10668>>,
       <<31584, 21818>>, <<31585, 10669>>, <<31586, 21821>>, <<31587, 10670>>, <<31588, 10671>>,
       <<31589, 10672>>, <<31590, 10673>>, <<31591, 10674>>, <<31592, 10675>>, <<31593, 10676>>,
       <<31594, 10677>>, <<31595, 10678>>, <<31596, 10679>>, <<31597, 10680>>, <<31598, 21819>>,
       <<31599, 10681>>, <<31600, 10682>>, <<31601, 21823>>, <<31602, 21822>>, <<31603, 10683>>,
       <<31604, 10684>>, <<31605, 21815>>, <<31606, 10685>>, <<31607, 11950>>, <<31608, 10686>>,
       <<31609, 9675>>, <<31610, 10687>>, <<31611, 21820>>, <<31612, 10688>>, <<31613, 10689>>,
       <<31614, 13405>>, <<31615, 10690>>, <<31616, 11388>>, <<31617, 10691>>, <<31618, 10692>>,
       <<31619, 10693>>, <<31620, 10694>>, <<31621, 21831>>, <<31622, 10695>>, <<31623, 10696>>,
       <<31624, 10697>>, <<31625, 10698>>, <<31626, 10699>>, <<31627, 10700>>, <<31628, 10701>>,
       <<31629, 10767>>, <<31630, 10702>>, <<31631, 10703>>, <<31632, 21824>>, <<31633, 10704>>,
       <<31634, 10705>>, <<31635, 10706>>, <<31636, 9419>>, <<31637, 11210>>, <<31638, 10707>>,
       <<31639, 14223>>, <<31640, 10708>>, <<31641, 10709>>, <<31642, 10710>>, <<31643, 10711>>,
       <<31644, 21833>>, <<31645, 21829>>, <<31646, 10712>>, <<31647, 10713>>, <<31648, 10714>>,
       <<31649, 10796>>, <<31650, 21834>>, <<31651, 10715>>, <<31652, 10716>>, <<31653, 10717>>,
       <<31654, 21825>>, <<31655, 21826>>, <<31656, 21830>>, <<31657, 12511>>, <<31658, 21832>>,
       <<31659, 21835>>, <<31660, 21828>>, <<31661, 11399>>, <<31662, 10718>>, <<31663, 10719>>,
       <<31664, 10720>>, <<31665, 14984>>, <<31666, 10721>>, <<31667, 10722>>, <<31668, 21836>>,
       <<31669, 10723>>, <<31670, 10724>>, <<31671, 10725>>, <<31672, 21827>>, <<31673, 10726>>,
       <<31674, 10727>>, <<31675, 10728>>, <<31676, 10729>>, <<31677, 10730>>, <<31678, 10731>>,
       <<31679, 10732>>, <<31680, 10733>>, <<31681, 21838>>, <<31682, 10734>>, <<31683, 10735>>,
       <<31684, 10736>>, <<31685, 10831>>, <<31686, 16449>>, <<31687, 13216>>, <<31688, 10832>>,
       <<31689, 10833>>, <<31690, 10834>>, <<31691, 10835>>, <<31692, 21839>>, <<31693, 10836>>,
       <<31694, 10837>>, <<31695, 10838>>, <<31696, 10839>>, <<31697, 21837>>, <<31698, 10840>>,
       <<31699, 12454>>, <<31700, 10841>>, <<31701, 10842>>, <<31702, 10843>>, <<31703, 10844>>,
       <<31704, 10845>>, <<31705, 10607>>, <<31706, 21841>>, <<31707, 10846>>, <<31708, 10847>>,
       <<31709, 21840>>, <<31710, 10848>>, <<31711, 10849>>, <<31712, 10850>>, <<31713, 9845>>,
       <<31714, 10851>>, <<31715, 10852>>, <<31716, 10853>>, <<31717, 21842>>, <<31718, 21843>>,
       <<31719, 10854>>, <<31720, 10855>>, <<31721, 10856>>, <<31722, 21844>>, <<31723, 10857>>,
       <<31724, 10858>>, <<31725, 10859>>, <<31726, 12092>>, <<31727, 10860>>, <<31728, 10861>>,
       <<31729, 12139>>, <<31730, 10862>>, <<31731, 10863>>, <<31732, 10864>>, <<31733, 10865>>,
       <<31734, 10866>>, <<31735, 13097>>, <<31736, 10867>>, <<31737, 10868>>, <<31738, 10869>>,
       <<31739, 10870>>, <<31740, 21847>>, <<31741, 10871>>, <<31742, 21846>>, <<31743, 10872>>,
       <<31744, 10873>>, <<31745, 10874>>, <<31746, 10875>>, <<31747, 10876>>, <<31748, 10877>>,
       <<31749, 10878>>, <<31750, 10879>>, <<31751, 9842>>, <<31752, 10880>>, <<31753, 10881>>,
       <<31754, 10882>>, <<31755, 21850>>, <<31756, 21845>>, <<31757, 10883>>, <<31758, 10884>>,
       <<31759, 21848>>, <<31760, 10885>>, <<31761, 10886>>, <<31762, 10887>>, <<31763, 10888>>,
       <<31764, 10889>>, <<31765, 10890>>, <<31766, 21849>>, <<31767, 10891>>, <<31768, 10892>>,
       <<31769, 10893>>, <<31770, 10894>>, <<31771, 10895>>, <<31772, 10896>>, <<31773, 10897>>,
       <<31774, 10898>>, <<31775, 21947>>, <<31776, 10899>>, <<31777, 10900>>, <<31778, 10901>>,
       <<31779, 10902>>, <<31780, 10903>>, <<31781, 10904>>, <<31782, 21949>>, <<31783, 11157>>,
       <<31784, 10905>>, <<31785, 10906>>, <<31786, 21948>>, <<31787, 10907>>, <<31788, 10908>>,
       <<31789, 10909>>, <<31790, 10910>>, <<31791, 10911>>, <<31792, 10912>>, <<31793, 10913>>,
       <<31794, 10914>>, <<31795, 10915>>, <<31796, 10916>>, <<31797, 10917>>, <<31798, 10918>>,
       <<31799, 10919>>, <<31800, 21950>>, <<31801, 10920>>, <<31802, 10921>>, <<31803, 10922>>,
       <<31804, 10923>>, <<31805, 10924>>, <<31806, 10925>>, <<31807, 9436>>, <<31808, 21952>>,
       <<31809, 21951>>, <<31810, 10926>>, <<31811, 11021>>, <<31812, 11022>>, <<31813, 11023>>,
       <<31814, 11024>>, <<31815, 11025>>, <<31816, 11026>>, <<31817, 11027>>, <<31818, 11028>>,
       <<31819, 11029>>, <<31820, 11030>>, <<31821, 11320>>, <<31822, 11031>>, <<31823, 11032>>,
       <<31824, 11033>>, <<31825, 11034>>, <<31826, 11035>>, <<31827, 11036>>, <<31828, 11037>>,
       <<31829, 11038>>, <<31830, 11039>>, <<31831, 11040>>, <<31832, 11041>>, <<31833, 11042>>,
       <<31834, 11043>>, <<31835, 11044>>, <<31836, 11045>>, <<31837, 11046>>, <<31838, 11047>>,
       <<31839, 11048>>, <<31840, 11049>>, <<31841, 11050>>, <<31842, 11051>>, <<31843, 11052>>,
       <<31844, 11053>>, <<31845, 11054>>, <<31846, 11055>>, <<31847, 11056>>, <<31848, 11057>>,
       <<31849, 11058>>, <<31850, 11059>>, <<31851, 11060>>, <<31852, 11061>>, <<31853, 11062>>,
       <<31854, 11063>>, <<31855, 11064>>, <<31856, 11065>>, <<31857, 11066>>, <<31858, 11067>>,
       <<31859, 12691>>, <<31860, 16881>>, <<31861, 11068>>, <<31862, 11069>>, <<31863, 11070>>,
       <<31864, 11071>>, <<31865, 11072>>, <<31866, 11073>>, <<31867, 12130>>, <<31868, 21990>>,
       <<31869, 16485>>, <<31870, 11074>>, <<31871, 11075>>, <<31872, 11076>>, <<31873, 11077>>,
       <<31874, 11078>>, <<31875, 11079>>, <<31876, 11080>>, <<31877, 11081>>, <<31878, 11082>>,
       <<31879, 11083>>, <<31880, 11084>>, <<31881, 10415>>, <<31882, 11085>>, <<31883, 11086>>,
       <<31884, 11087>>, <<31885, 11088>>, <<31886, 11089>>, <<31887, 11090>>, <<31888, 11091>>,
       <<31889, 21992>>, <<31890, 12259>>, <<31891, 11092>>, <<31892, 11093>>, <<31893, 13247>>,
       <<31894, 11094>>, <<31895, 9840>>, <<31896, 16075>>, <<31897, 11095>>, <<31898, 11096>>,
       <<31899, 11097>>, <<31900, 21994>>, <<31901, 21993>>, <<31902, 21995>>, <<31903, 14214>>,
       <<31904, 11098>>, <<31905, 11099>>, <<31906, 21996>>, <<31907, 11100>>, <<31908, 15899>>,
       <<31909, 16310>>, <<31910, 11101>>, <<31911, 11102>>, <<31912, 11103>>, <<31913, 11104>>,
       <<31914, 10420>>, <<31915, 11105>>, <<31916, 11106>>, <<31917, 11107>>, <<31918, 12280>>,
       <<31919, 11108>>, <<31920, 11109>>, <<31921, 12283>>, <<31922, 21997>>, <<31923, 11698>>,
       <<31924, 11110>>, <<31925, 11111>>, <<31926, 11112>>, <<31927, 11113>>, <<31928, 11114>>,
       <<31929, 9852>>, <<31930, 11115>>, <<31931, 11116>>, <<31932, 21998>>, <<31933, 21999>>,
       <<31934, 11697>>, <<31935, 11211>>, <<31936, 11212>>, <<31937, 22000>>, <<31938, 11213>>,
       <<31939, 11214>>, <<31940, 11215>>, <<31941, 22005>>, <<31942, 11216>>, <<31943, 22001>>,
       <<31944, 22004>>, <<31945, 11217>>, <<31946, 11019>>, <<31947, 11218>>, <<31948, 22002>>,
       <<31949, 22003>>, <<31950, 11219>>, <<31951, 11220>>, <<31952, 11221>>, <<31953, 11222>>,
       <<31954, 11223>>, <<31955, 11224>>, <<31956, 11225>>, <<31957, 10612>>, <<31958, 14385>>,
       <<31959, 22006>>, <<31960, 11226>>, <<31961, 9464>>, <<31962, 11227>>, <<31963, 11228>>,
       <<31964, 12687>>, <<31965, 11229>>, <<31966, 11230>>, <<31967, 15933>>, <<31968, 11899>>,
       <<31969, 11231>>, <<31970, 11232>>, <<31971, 11233>>, <<31972, 11234>>, <<31973, 11235>>,
       <<31974, 11236>>, <<31975, 11237>>, <<31976, 22007>>, <<31977, 11238>>, <<31978, 11239>>,
       <<31979, 11240>>, <<31980, 11241>>, <<31981, 11242>>, <<31982, 11243>>, <<31983, 13036>>,
       <<31984, 11244>>, <<31985, 11245>>, <<31986, 11246>>, <<31987, 11247>>, <<31988, 11248>>,
       <<31989, 11249>>, <<31990, 11250>>, <<31991, 11251>>, <<31992, 22019>>, <<31993, 11252>>,
       <<31994, 11253>>, <<31995, 14937>>, <<31996, 11254>>, <<31997, 11255>>, <<31998, 11256>>,
       <<31999, 11257>>, <<32000, 11258>>, <<32001, 11259>>, <<32002, 11260>>, <<32003, 11261>>,
       <<32004, 11262>>, <<32005, 11263>>, <<32006, 11264>>, <<32007, 11265>>, <<32008, 11266>>,
       <<32009, 11267>>, <<32010, 14767>>, <<32011, 11268>>, <<32012, 11269>>, <<32013, 11270>>,
       <<32014, 11271>>, <<32015, 11272>>, <<32016, 11273>>, <<32017, 11274>>, <<32018, 11275>>,
       <<32019, 11276>>, <<32020, 11277>>, <<32021, 11278>>, <<32022, 11279>>, <<32023, 11280>>,
       <<32024, 11281>>, <<32025, 11282>>, <<32026, 11283>>, <<32027, 11284>>, <<32028, 11285>>,
       <<32029, 11286>>, <<32030, 11287>>, <<32031, 11288>>, <<32032, 14212>>, <<32033, 11289>>,
       <<32034, 14243>>, <<32035, 11290>>, <<32036, 11291>>, <<32037, 11292>>, <<32038, 11293>>,
       <<32039, 11580>>, <<32040, 11294>>, <<32041, 11295>>, <<32042, 11296>>, <<32043, 16483>>,
       <<32044, 11297>>, <<32045, 11298>>, <<32046, 11299>>, <<32047, 12125>>, <<32048, 11300>>,
       <<32049, 11301>>, <<32050, 11302>>, <<32051, 11303>>, <<32052, 11304>>, <<32053, 11305>>,
       <<32054, 11306>>, <<32055, 11401>>, <<32056, 11402>>, <<32057, 11403>>, <<32058, 11404>>,
       <<32059, 11405>>, <<32060, 11406>>, <<32061, 11407>>, <<32062, 11408>>, <<32063, 11409>>,
       <<32064, 11410>>, <<32065, 11411>>, <<32066, 11412>>, <<32067, 11413>>, <<32068, 11414>>,
       <<32069, 11415>>, <<32070, 11416>>, <<32071, 11417>>, <<32072, 11418>>, <<32073, 11419>>,
       <<32074, 11420>>, <<32075, 11421>>, <<32076, 11422>>, <<32077, 11423>>, <<32078, 11424>>,
       <<32079, 11425>>, <<32080, 11426>>, <<32081, 11427>>, <<32082, 11428>>, <<32083, 11429>>,
       <<32084, 11430>>, <<32085, 11431>>, <<32086, 11432>>, <<32087, 11433>>, <<32088, 11434>>,
       <<32089, 11435>>, <<32090, 11436>>, <<32091, 11437>>, <<32092, 11438>>, <<32093, 11439>>,
       <<32094, 11440>>, <<32095, 11441>>, <<32096, 11442>>, <<32097, 11443>>, <<32098, 11444>>,
       <<32099, 11445>>, <<32100, 11446>>, <<32101, 11447>>, <<32102, 11448>>, <<32103, 11449>>,
       <<32104, 11450>>, <<32105, 11451>>, <<32106, 11452>>, <<32107, 11453>>, <<32108, 11454>>,
       <<32109, 11455>>, <<32110, 15191>>, <<32111, 11456>>, <<32112, 11457>>, <<32113, 11458>>,
       <<32114, 11459>>, <<32115, 11460>>, <<32116, 11461>>, <<32117, 11462>>, <<32118, 11463>>,
       <<32119, 22020>>, <<32120, 11464>>, <<32121, 11465>>, <<32122, 11466>>, <<32123, 11467>>,
       <<32124, 11468>>, <<32125, 11469>>, <<32126, 11470>>, <<32127, 11471>>, <<32128, 11472>>,
       <<32129, 11473>>, <<32130, 11474>>, <<32131, 11475>>, <<32132, 11476>>, <<32133, 11477>>,
       <<32134, 11478>>, <<32135, 11479>>, <<32136, 11480>>, <<32137, 11481>>, <<32138, 11482>>,
       <<32139, 11483>>, <<32140, 11484>>, <<32141, 11485>>, <<32142, 11486>>, <<32143, 11487>>,
       <<32144, 11488>>, <<32145, 11489>>, <<32146, 11490>>, <<32147, 11491>>, <<32148, 11492>>,
       <<32149, 11493>>, <<32150, 11494>>, <<32151, 11495>>, <<32152, 11496>>, <<32153, 11591>>,
       <<32154, 11592>>, <<32155, 11593>>, <<32156, 11594>>, <<32157, 11595>>, <<32158, 11596>>,
       <<32159, 11597>>, <<32160, 11598>>, <<32161, 11599>>, <<32162, 11600>>, <<32163, 11601>>,
       <<32164, 11602>>, <<32165, 11603>>, <<32166, 22021>>, <<32167, 11604>>, <<32168, 11605>>,
       <<32169, 11606>>, <<32170, 11607>>, <<32171, 11608>>, <<32172, 11609>>, <<32173, 11610>>,
       <<32174, 22022>>, <<32175, 11611>>, <<32176, 11612>>, <<32177, 11613>>, <<32178, 11614>>,
       <<32179, 11615>>, <<32180, 11616>>, <<32181, 11617>>, <<32182, 11618>>, <<32183, 11619>>,
       <<32184, 11620>>, <<32185, 11621>>, <<32186, 11622>>, <<32187, 11623>>, <<32188, 11624>>,
       <<32189, 11625>>, <<32190, 11626>>, <<32191, 11627>>, <<32192, 11628>>, <<32193, 11629>>,
       <<32194, 11630>>, <<32195, 11631>>, <<32196, 11632>>, <<32197, 11633>>, <<32198, 11634>>,
       <<32199, 11635>>, <<32200, 11636>>, <<32201, 11637>>, <<32202, 11638>>, <<32203, 11639>>,
       <<32204, 11640>>, <<32205, 11641>>, <<32206, 11642>>, <<32207, 11643>>, <<32208, 11644>>,
       <<32209, 11645>>, <<32210, 11646>>, <<32211, 11647>>, <<32212, 11648>>, <<32213, 11649>>,
       <<32214, 11650>>, <<32215, 11651>>, <<32216, 11652>>, <<32217, 11653>>, <<32218, 11654>>,
       <<32219, 11655>>, <<32220, 11656>>, <<32221, 11657>>, <<32222, 11658>>, <<32223, 11659>>,
       <<32224, 11660>>, <<32225, 11661>>, <<32226, 11662>>, <<32227, 11663>>, <<32228, 11664>>,
       <<32229, 11665>>, <<32230, 11666>>, <<32231, 11667>>, <<32232, 11668>>, <<32233, 11669>>,
       <<32234, 11670>>, <<32235, 11671>>, <<32236, 11672>>, <<32237, 11673>>, <<32238, 11674>>,
       <<32239, 11675>>, <<32240, 11676>>, <<32241, 11677>>, <<32242, 11678>>, <<32243, 11679>>,
       <<32244, 11680>>, <<32245, 11681>>, <<32246, 11682>>, <<32247, 11683>>, <<32248, 11684>>,
       <<32249, 11685>>, <<32250, 11686>>, <<32251, 11781>>, <<32252, 11782>>, <<32253, 11783>>,
       <<32254, 11784>>, <<32255, 11785>>, <<32256, 11786>>, <<32257, 11787>>, <<32258, 11788>>,
       <<32259, 11789>>, <<32260, 11790>>, <<32261, 11791>>, <<32262, 11792>>, <<32263, 11793>>,
       <<32264, 11794>>, <<32265, 11795>>, <<32266, 11796>>, <<32267, 11797>>, <<32268, 11798>>,
       <<32269, 11799>>, <<32270, 11800>>, <<32271, 11801>>, <<32272, 11802>>, <<32273, 11803>>,
       <<32274, 11804>>, <<32275, 11805>>, <<32276, 11806>>, <<32277, 11807>>, <<32278, 11808>>,
       <<32279, 11809>>, <<32280, 11810>>, <<32281, 11811>>, <<32282, 11812>>, <<32283, 11813>>,
       <<32284, 11814>>, <<32285, 11815>>, <<32286, 11816>>, <<32287, 11817>>, <<32288, 11818>>,
       <<32289, 11819>>, <<32290, 11820>>, <<32291, 11821>>, <<32292, 11822>>, <<32293, 11823>>,
       <<32294, 11824>>, <<32295, 11825>>, <<32296, 11826>>, <<32297, 11827>>, <<32298, 11828>>,
       <<32299, 11829>>, <<32300, 11830>>, <<32301, 11831>>, <<32302, 11832>>, <<32303, 11833>>,
       <<32304, 11834>>, <<32305, 11835>>, <<32306, 11836>>, <<32307, 11837>>, <<32308, 11838>>,
       <<32309, 11839>>, <<32310, 11840>>, <<32311, 11841>>, <<32312, 11842>>, <<32313, 11843>>,
       <<32314, 11844>>, <<32315, 22583>>, <<32316, 11845>>, <<32317, 11846>>, <<32318, 11847>>,
       <<32319, 11848>>, <<32320, 11849>>, <<32321, 10373>>, <<32322, 11850>>, <<32323, 11851>>,
       <<32324, 11852>>, <<32325, 11853>>, <<32326, 11854>>, <<32327, 22023>>, <<32328, 11855>>,
       <<32329, 11856>>, <<32330, 11857>>, <<32331, 11858>>, <<32332, 11859>>, <<32333, 11860>>,
       <<32334, 11861>>, <<32335, 11862>>, <<32336, 11863>>, <<32337, 11864>>, <<32338, 11865>>,
       <<32339, 11866>>, <<32340, 11867>>, <<32341, 11868>>, <<32342, 11869>>, <<32343, 11870>>,
       <<32344, 11871>>, <<32345, 11872>>, <<32346, 11873>>, <<32347, 11874>>, <<32348, 11875>>,
       <<32349, 11876>>, <<32350, 11971>>, <<32351, 11972>>, <<32352, 11973>>, <<32353, 11974>>,
       <<32354, 11975>>, <<32355, 11976>>, <<32356, 11977>>, <<32357, 11978>>, <<32358, 11979>>,
       <<32359, 11980>>, <<32360, 11981>>, <<32361, 11982>>, <<32362, 11983>>, <<32363, 11984>>,
       <<32364, 11985>>, <<32365, 11986>>, <<32366, 11987>>, <<32367, 11988>>, <<32368, 11989>>,
       <<32369, 11990>>, <<32370, 11991>>, <<32371, 11992>>, <<32372, 11993>>, <<32373, 11994>>,
       <<32374, 11995>>, <<32375, 11996>>, <<32376, 11997>>, <<32377, 11998>>, <<32378, 11999>>,
       <<32379, 12000>>, <<32380, 12001>>, <<32381, 12002>>, <<32382, 12003>>, <<32383, 12004>>,
       <<32384, 12005>>, <<32385, 12006>>, <<32386, 16511>>, <<32387, 12007>>, <<32388, 12008>>,
       <<32389, 12009>>, <<32390, 12010>>, <<32391, 12011>>, <<32392, 12012>>, <<32393, 12013>>,
       <<32394, 12014>>, <<32395, 12015>>, <<32396, 12016>>, <<32397, 12017>>, <<32398, 12018>>,
       <<32399, 12019>>, <<32400, 12020>>, <<32401, 12021>>, <<32402, 12022>>, <<32403, 12023>>,
       <<32404, 12024>>, <<32405, 12025>>, <<32406, 12026>>, <<32407, 12027>>, <<32408, 12028>>,
       <<32409, 12029>>, <<32410, 12030>>, <<32411, 22024>>, <<32412, 12031>>, <<32413, 12032>>,
       <<32414, 12033>>, <<32415, 19375>>, <<32416, 11718>>, <<32417, 19376>>, <<32418, 11002>>,
       <<32419, 19377>>, <<32420, 14959>>, <<32421, 19378>>, <<32422, 15894>>, <<32423, 11328>>,
       <<32424, 19379>>, <<32425, 19380>>, <<32426, 11351>>, <<32427, 13636>>, <<32428, 14745>>,
       <<32429, 19477>>, <<32430, 12034>>, <<32431, 9817>>, <<32432, 19478>>, <<32433, 13796>>,
       <<32434, 10603>>, <<32435, 12867>>, <<32436, 12035>>, <<32437, 16497>>, <<32438, 12504>>,
       <<32439, 10411>>, <<32440, 16275>>, <<32441, 14764>>, <<32442, 10392>>, <<32443, 12036>>,
       <<32444, 12037>>, <<32445, 13022>>, <<32446, 19479>>, <<32447, 14979>>, <<32448, 19480>>,
       <<32449, 19481>>, <<32450, 19482>>, <<32451, 12279>>, <<32452, 16509>>, <<32453, 13856>>,
       <<32454, 14940>>, <<32455, 16261>>, <<32456, 16299>>, <<32457, 19483>>, <<32458, 9103>>,
       <<32459, 19484>>, <<32460, 19485>>, <<32461, 13836>>, <<32462, 15565>>, <<32463, 11699>>,
       <<32464, 19486>>, <<32465, 9109>>, <<32466, 13648>>, <<32467, 11561>>, <<32468, 19487>>,
       <<32469, 13624>>, <<32470, 12038>>, <<32471, 19488>>, <<32472, 11186>>, <<32473, 10634>>,
       <<32474, 15300>>, <<32475, 19489>>, <<32476, 12517>>, <<32477, 11774>>, <<32478, 11538>>,
       <<32479, 14555>>, <<32480, 19490>>, <<32481, 19491>>, <<32482, 11764>>, <<32483, 15175>>,
       <<32484, 12039>>, <<32485, 14227>>, <<32486, 14394>>, <<32487, 11350>>, <<32488, 19492>>,
       <<32489, 11314>>, <<32490, 15193>>, <<32491, 19493>>, <<32492, 12040>>, <<32493, 15194>>,
       <<32494, 19494>>, <<32495, 19495>>, <<32496, 9820>>, <<32497, 19496>>, <<32498, 19497>>,
       <<32499, 13870>>, <<32500, 14738>>, <<32501, 12700>>, <<32502, 19499>>, <<32503, 9249>>,
       <<32504, 9677>>, <<32505, 12041>>, <<32506, 19500>>, <<32507, 19501>>, <<32508, 16495>>,
       <<32509, 16088>>, <<32510, 19502>>, <<32511, 12490>>, <<32512, 16462>>, <<32513, 19503>>,
       <<32514, 19504>>, <<32515, 19505>>, <<32516, 11380>>, <<32517, 12705>>, <<32518, 12100>>,
       <<32519, 19506>>, <<32520, 19507>>, <<32521, 11315>>, <<32522, 12042>>, <<32523, 19508>>,
       <<32524, 19509>>, <<32525, 19498>>, <<32526, 10214>>, <<32527, 19510>>, <<32528, 12043>>,
       <<32529, 19511>>, <<32530, 19512>>, <<32531, 11142>>, <<32532, 10038>>, <<32533, 12484>>,
       <<32534, 9280>>, <<32535, 19513>>, <<32536, 15887>>, <<32537, 19514>>, <<32538, 10577>>,
       <<32539, 19516>>, <<32540, 19515>>, <<32541, 10432>>, <<32542, 12044>>, <<32543, 19517>>,
       <<32544, 9494>>, <<32545, 19518>>, <<32546, 19519>>, <<32547, 19520>>, <<32548, 19521>>,
       <<32549, 19522>>, <<32550, 19523>>, <<32551, 19524>>, <<32552, 15683>>, <<32553, 14241>>,
       <<32554, 19525>>, <<32555, 19526>>, <<32556, 19527>>, <<32557, 19528>>, <<32558, 13817>>,
       <<32559, 19529>>, <<32560, 19530>>, <<32561, 19531>>, <<32562, 19532>>, <<32563, 19533>>,
       <<32564, 11537>>, <<32565, 19534>>, <<32566, 21786>>, <<32567, 12045>>, <<32568, 10601>>,
       <<32569, 12046>>, <<32570, 13603>>, <<32571, 12047>>, <<32572, 12048>>, <<32573, 12049>>,
       <<32574, 12050>>, <<32575, 12051>>, <<32576, 12052>>, <<32577, 12053>>, <<32578, 21787>>,
       <<32579, 12054>>, <<32580, 21788>>, <<32581, 21789>>, <<32582, 12055>>, <<32583, 12056>>,
       <<32584, 12057>>, <<32585, 12058>>, <<32586, 12059>>, <<32587, 12060>>, <<32588, 12061>>,
       <<32589, 12062>>, <<32590, 12063>>, <<32591, 12064>>, <<32592, 10798>>, <<32593, 14624>>,
       <<32594, 12065>>, <<32595, 12066>>, <<32596, 16698>>, <<32597, 10943>>, <<32598, 12161>>,
       <<32599, 12508>>, <<32600, 20829>>, <<32601, 12162>>, <<32602, 10359>>, <<32603, 12163>>,
       <<32604, 12164>>, <<32605, 12165>>, <<32606, 12166>>, <<32607, 20831>>, <<32608, 12167>>,
       <<32609, 20830>>, <<32610, 9079>>, <<32611, 12168>>, <<32612, 12169>>, <<32613, 12170>>,
       <<32614, 12171>>, <<32615, 12172>>, <<32616, 20833>>, <<32617, 16110>>, <<32618, 16515>>,
       <<32619, 12173>>, <<32620, 12174>>, <<32621, 12175>>, <<32622, 16281>>, <<32623, 12176>>,
       <<32624, 12177>>, <<32625, 20835>>, <<32626, 14046>>, <<32627, 12178>>, <<32628, 20834>>,
       <<32629, 12179>>, <<32630, 12180>>, <<32631, 12181>>, <<32632, 12182>>, <<32633, 20836>>,
       <<32634, 12183>>, <<32635, 12184>>, <<32636, 12185>>, <<32637, 12186>>, <<32638, 20838>>,
       <<32639, 12187>>, <<32640, 12188>>, <<32641, 20837>>, <<32642, 12189>>, <<32643, 12190>>,
       <<32644, 12191>>, <<32645, 12192>>, <<32646, 12193>>, <<32647, 12194>>, <<32648, 12195>>,
       <<32649, 12196>>, <<32650, 15378>>, <<32651, 12197>>, <<32652, 13424>>, <<32653, 12198>>,
       <<32654, 12668>>, <<32655, 12199>>, <<32656, 12200>>, <<32657, 12201>>, <<32658, 12202>>,
       <<32659, 12203>>, <<32660, 10611>>, <<32661, 12204>>, <<32662, 12205>>, <<32663, 12206>>,
       <<32664, 12207>>, <<32665, 12208>>, <<32666, 12327>>, <<32667, 12209>>, <<32668, 12210>>,
       <<32669, 21984>>, <<32670, 15169>>, <<32671, 21985>>, <<32672, 12211>>, <<32673, 14975>>,
       <<32674, 12212>>, <<32675, 12213>>, <<32676, 13612>>, <<32677, 12214>>, <<32678, 12215>>,
       <<32679, 21986>>, <<32680, 12216>>, <<32681, 12217>>, <<32682, 12218>>, <<32683, 12219>>,
       <<32684, 12220>>, <<32685, 12221>>, <<32686, 12222>>, <<32687, 21987>>, <<32688, 21988>>,
       <<32689, 12223>>, <<32690, 21989>>, <<32691, 12224>>, <<32692, 12225>>, <<32693, 12226>>,
       <<32694, 12227>>, <<32695, 12228>>, <<32696, 16906>>, <<32697, 10640>>, <<32698, 12229>>,
       <<32699, 12230>>, <<32700, 19177>>, <<32701, 15756>>, <<32702, 12231>>, <<32703, 22010>>,
       <<32704, 12232>>, <<32705, 14770>>, <<32706, 12233>>, <<32707, 12234>>, <<32708, 12235>>,
       <<32709, 9661>>, <<32710, 12236>>, <<32711, 12237>>, <<32712, 12238>>, <<32713, 12239>>,
       <<32714, 21396>>, <<32715, 12240>>, <<32716, 15564>>, <<32717, 12241>>, <<32718, 22011>>,
       <<32719, 12242>>, <<32720, 12243>>, <<32721, 12244>>, <<32722, 12245>>, <<32723, 12246>>,
       <<32724, 14988>>, <<32725, 22012>>, <<32726, 12247>>, <<32727, 12248>>, <<32728, 13440>>,
       <<32729, 12249>>, <<32730, 12250>>, <<32731, 12251>>, <<32732, 12252>>, <<32733, 12253>>,
       <<32734, 12254>>, <<32735, 10028>>, <<32736, 9854>>, <<32737, 22014>>, <<32738, 12255>>,
       <<32739, 12256>>, <<32740, 12351>>, <<32741, 22013>>, <<32742, 22015>>, <<32743, 12352>>,
       <<32744, 12353>>, <<32745, 22016>>, <<32746, 12354>>, <<32747, 12355>>, <<32748, 12356>>,
       <<32749, 12357>>, <<32750, 22017>>, <<32751, 12358>>, <<32752, 10944>>, <<32753, 9057>>,
       <<32754, 12359>>, <<32755, 22018>>, <<32756, 12360>>, <<32757, 12361>>, <<32758, 12362>>,
       <<32759, 12363>>, <<32760, 12364>>, <<32761, 12365>>, <<32762, 12366>>, <<32763, 10369>>,
       <<32764, 15563>>, <<32765, 12367>>, <<32766, 12368>>, <<32767, 12369>>, <<32768, 15497>>,
       <<32769, 12113>>, <<32770, 12370>>, <<32771, 11904>>, <<32772, 20239>>, <<32773, 16119>>,
       <<32774, 20086>>, <<32775, 12371>>, <<32776, 12372>>, <<32777, 12373>>, <<32778, 12374>>,
       <<32779, 21459>>, <<32780, 10254>>, <<32781, 14159>>, <<32782, 12375>>, <<32783, 12376>>,
       <<32784, 12871>>, <<32785, 12377>>, <<32786, 21447>>, <<32787, 12378>>, <<32788, 21448>>,
       <<32789, 10637>>, <<32790, 21449>>, <<32791, 10962>>, <<32792, 15903>>, <<32793, 9076>>,
       <<32794, 12379>>, <<32795, 12380>>, <<32796, 21450>>, <<32797, 12381>>, <<32798, 12382>>,
       <<32799, 12383>>, <<32800, 21451>>, <<32801, 12384>>, <<32802, 21452>>, <<32803, 12385>>,
       <<32804, 12386>>, <<32805, 21453>>, <<32806, 21454>>, <<32807, 21455>>, <<32808, 21457>>,
       <<32809, 21456>>, <<32810, 13069>>, <<32811, 12387>>, <<32812, 12388>>, <<32813, 12389>>,
       <<32814, 12390>>, <<32815, 12391>>, <<32816, 12392>>, <<32817, 21458>>, <<32818, 12393>>,
       <<32819, 10256>>, <<32820, 12394>>, <<32821, 21460>>, <<32822, 15500>>, <<32823, 17805>>,
       <<32824, 14198>>, <<32825, 12395>>, <<32826, 12396>>, <<32827, 9656>>, <<32828, 12397>>,
       <<32829, 9978>>, <<32830, 12398>>, <<32831, 10738>>, <<32832, 12399>>, <<32833, 12400>>,
       <<32834, 12910>>, <<32835, 21461>>, <<32836, 12401>>, <<32837, 12402>>, <<32838, 21462>>,
       <<32839, 12403>>, <<32840, 12404>>, <<32841, 12405>>, <<32842, 12292>>, <<32843, 12347>>,
       <<32844, 16262>>, <<32845, 21463>>, <<32846, 12406>>, <<32847, 12407>>, <<32848, 12408>>,
       <<32849, 12409>>, <<32850, 21464>>, <<32851, 12410>>, <<32852, 12266>>, <<32853, 12411>>,
       <<32854, 12412>>, <<32855, 12413>>, <<32856, 13230>>, <<32857, 12414>>, <<32858, 11745>>,
       <<32859, 12415>>, <<32860, 12416>>, <<32861, 12417>>, <<32862, 12418>>, <<32863, 12419>>,
       <<32864, 12420>>, <<32865, 12421>>, <<32866, 12422>>, <<32867, 12423>>, <<32868, 12424>>,
       <<32869, 12425>>, <<32870, 12426>>, <<32871, 12427>>, <<32872, 12428>>, <<32873, 21465>>,
       <<32874, 9833>>, <<32875, 12429>>, <<32876, 12430>>, <<32877, 12431>>, <<32878, 12432>>,
       <<32879, 12433>>, <<32880, 12434>>, <<32881, 21466>>, <<32882, 12435>>, <<32883, 12436>>,
       <<32884, 12437>>, <<32885, 12438>>, <<32886, 12439>>, <<32887, 12440>>, <<32888, 12441>>,
       <<32889, 12442>>, <<32890, 12443>>, <<32891, 12444>>, <<32892, 12445>>, <<32893, 12446>>,
       <<32894, 12541>>, <<32895, 20634>>, <<32896, 20633>>, <<32897, 12542>>, <<32898, 12543>>,
       <<32899, 14220>>, <<32900, 15548>>, <<32901, 12544>>, <<32902, 14189>>, <<32903, 16112>>,
       <<32904, 12545>>, <<32905, 13652>>, <<32906, 12546>>, <<32907, 12129>>, <<32908, 11307>>,
       <<32909, 12547>>, <<32910, 12548>>, <<32911, 12549>>, <<32912, 12550>>, <<32913, 12551>>,
       <<32914, 12552>>, <<32915, 20269>>, <<32916, 12553>>, <<32917, 12554>>, <<32918, 15110>>,
       <<32919, 12555>>, <<32920, 16312>>, <<32921, 12556>>, <<32922, 10205>>, <<32923, 10602>>,
       <<32924, 20268>>, <<32925, 10592>>, <<32926, 12557>>, <<32927, 20267>>, <<32928, 9602>>,
       <<32929, 10777>>, <<32930, 16257>>, <<32931, 12558>>, <<32932, 10440>>, <<32933, 10398>>,
       <<32934, 12559>>, <<32935, 12560>>, <<32936, 12561>>, <<32937, 11377>>, <<32938, 10386>>,
       <<32939, 20274>>, <<32940, 12562>>, <<32941, 20275>>, <<32942, 9051>>, <<32943, 11923>>,
       <<32944, 12563>>, <<32945, 20273>>, <<32946, 15769>>, <<32947, 12564>>, <<32948, 20276>>,
       <<32949, 12565>>, <<32950, 12566>>, <<32951, 20277>>, <<32952, 12567>>, <<32953, 12568>>,
       <<32954, 10402>>, <<32955, 12569>>, <<32956, 20270>>, <<32957, 20272>>, <<32958, 13862>>,
       <<32959, 16301>>, <<32960, 16101>>, <<32961, 15124>>, <<32962, 20283>>, <<32963, 14750>>,
       <<32964, 20284>>, <<32965, 12570>>, <<32966, 9984>>, <<32967, 12571>>, <<32968, 12572>>,
       <<32969, 12573>>, <<32970, 12574>>, <<32971, 12575>>, <<32972, 9235>>, <<32973, 20286>>,
       <<32974, 14351>>, <<32975, 12576>>, <<32976, 12577>>, <<32977, 12578>>, <<32978, 12579>>,
       <<32979, 12580>>, <<32980, 12581>>, <<32981, 12582>>, <<32982, 13070>>, <<32983, 20287>>,
       <<32984, 12583>>, <<32985, 20285>>, <<32986, 13079>>, <<32987, 20282>>, <<32988, 13970>>,
       <<32989, 20289>>, <<32990, 9117>>, <<32991, 12584>>, <<32992, 12585>>, <<32993, 11016>>,
       <<32994, 12586>>, <<32995, 12587>>, <<32996, 16649>>, <<32997, 21443>>, <<32998, 12588>>,
       <<32999, 20278>>, <<33000, 20279>>, <<33001, 20280>>, <<33002, 20281>>, <<33003, 20290>>,
       <<33004, 19318>>, <<33005, 20293>>, <<33006, 12589>>, <<33007, 11948>>, <<33008, 15526>>,
       <<33009, 20291>>, <<33010, 20296>>, <<33011, 10622>>, <<33012, 20292>>, <<33013, 12590>>,
       <<33014, 11522>>, <<33015, 12591>>, <<33016, 15162>>, <<33017, 12592>>, <<33018, 9049>>,
       <<33019, 12593>>, <<33020, 20297>>, <<33021, 12886>>, <<33022, 12594>>, <<33023, 12595>>,
       <<33024, 12596>>, <<33025, 12597>>, <<33026, 16258>>, <<33027, 12598>>, <<33028, 12599>>,
       <<33029, 12600>>, <<33030, 9850>>, <<33031, 12601>>, <<33032, 12602>>, <<33033, 12532>>,
       <<33034, 11331>>, <<33035, 12603>>, <<33036, 12604>>, <<33037, 20294>>, <<33038, 20295>>,
       <<33039, 15930>>, <<33040, 13280>>, <<33041, 12878>>, <<33042, 20299>>, <<33043, 13023>>,
       <<33044, 16901>>, <<33045, 12605>>, <<33046, 9423>>, <<33047, 12606>>, <<33048, 20304>>,
       <<33049, 12607>>, <<33050, 11533>>, <<33051, 12608>>, <<33052, 12609>>, <<33053, 12610>>,
       <<33054, 20302>>, <<33055, 12611>>, <<33056, 12612>>, <<33057, 12613>>, <<33058, 12614>>,
       <<33059, 12615>>, <<33060, 12616>>, <<33061, 12617>>, <<33062, 12618>>, <<33063, 12619>>,
       <<33064, 12620>>, <<33065, 12621>>, <<33066, 12622>>, <<33067, 12623>>, <<33068, 20303>>,
       <<33069, 12624>>, <<33070, 12625>>, <<33071, 10558>>, <<33072, 12626>>, <<33073, 14585>>,
       <<33074, 20305>>, <<33075, 12627>>, <<33076, 12628>>, <<33077, 12629>>, <<33078, 20301>>,
       <<33079, 12630>>, <<33080, 12275>>, <<33081, 12631>>, <<33082, 12632>>, <<33083, 12633>>,
       <<33084, 12634>>, <<33085, 12635>>, <<33086, 13208>>, <<33087, 12636>>, <<33088, 12731>>,
       <<33089, 12732>>, <<33090, 12733>>, <<33091, 12734>>, <<33092, 12735>>, <<33093, 12736>>,
       <<33094, 14429>>, <<33095, 12737>>, <<33096, 20306>>, <<33097, 12738>>, <<33098, 12082>>,
       <<33099, 15510>>, <<33100, 20307>>, <<33101, 12739>>, <<33102, 12740>>, <<33103, 12741>>,
       <<33104, 10561>>, <<33105, 10559>>, <<33106, 12742>>, <<33107, 20308>>, <<33108, 13423>>,
       <<33109, 14619>>, <<33110, 12743>>, <<33111, 12744>>, <<33112, 12745>>, <<33113, 20310>>,
       <<33114, 20311>>, <<33115, 12746>>, <<33116, 12747>>, <<33117, 12748>>, <<33118, 12749>>,
       <<33119, 12750>>, <<33120, 20313>>, <<33121, 12751>>, <<33122, 12752>>, <<33123, 12753>>,
       <<33124, 12754>>, <<33125, 15146>>, <<33126, 12755>>, <<33127, 20318>>, <<33128, 12756>>,
       <<33129, 20314>>, <<33130, 12757>>, <<33131, 12758>>, <<33132, 12759>>, <<33133, 20317>>,
       <<33134, 13675>>, <<33135, 12760>>, <<33136, 15388>>, <<33137, 20312>>, <<33138, 12761>>,
       <<33139, 12762>>, <<33140, 20309>>, <<33141, 12763>>, <<33142, 12764>>, <<33143, 12765>>,
       <<33144, 12766>>, <<33145, 10571>>, <<33146, 14973>>, <<33147, 12895>>, <<33148, 20315>>,
       <<33149, 20316>>, <<33150, 14404>>, <<33151, 14576>>, <<33152, 9108>>, <<33153, 12767>>,
       <<33154, 20322>>, <<33155, 12768>>, <<33156, 12769>>, <<33157, 12770>>, <<33158, 12771>>,
       <<33159, 12772>>, <<33160, 20321>>, <<33161, 12773>>, <<33162, 9424>>, <<33163, 12774>>,
       <<33164, 12775>>, <<33165, 12776>>, <<33166, 12777>>, <<33167, 10610>>, <<33168, 12778>>,
       <<33169, 20323>>, <<33170, 12779>>, <<33171, 12780>>, <<33172, 12781>>, <<33173, 12782>>,
       <<33174, 12783>>, <<33175, 12784>>, <<33176, 9292>>, <<33177, 12785>>, <<33178, 12786>>,
       <<33179, 14383>>, <<33180, 12830>>, <<33181, 14921>>, <<33182, 12787>>, <<33183, 12788>>,
       <<33184, 12789>>, <<33185, 12790>>, <<33186, 12791>>, <<33187, 20325>>, <<33188, 12792>>,
       <<33189, 12793>>, <<33190, 20428>>, <<33191, 12794>>, <<33192, 13098>>, <<33193, 12795>>,
       <<33194, 20326>>, <<33195, 12796>>, <<33196, 12797>>, <<33197, 12798>>, <<33198, 12799>>,
       <<33199, 12800>>, <<33200, 12801>>, <<33201, 12802>>, <<33202, 12803>>, <<33203, 13813>>,
       <<33204, 12804>>, <<33205, 12805>>, <<33206, 12806>>, <<33207, 12807>>, <<33208, 12808>>,
       <<33209, 12809>>, <<33210, 18589>>, <<33211, 20330>>, <<33212, 12810>>, <<33213, 12811>>,
       <<33214, 12812>>, <<33215, 12813>>, <<33216, 14582>>, <<33217, 20427>>, <<33218, 9275>>,
       <<33219, 15699>>, <<33220, 12814>>, <<33221, 12815>>, <<33222, 15546>>, <<33223, 12816>>,
       <<33224, 12817>>, <<33225, 12818>>, <<33226, 20329>>, <<33227, 12819>>, <<33228, 20327>>,
       <<33229, 12820>>, <<33230, 12821>>, <<33231, 12822>>, <<33232, 12823>>, <<33233, 12824>>,
       <<33234, 12825>>, <<33235, 12826>>, <<33236, 12921>>, <<33237, 12922>>, <<33238, 12923>>,
       <<33239, 12924>>, <<33240, 12925>>, <<33241, 12926>>, <<33242, 12927>>, <<33243, 12928>>,
       <<33244, 12929>>, <<33245, 12930>>, <<33246, 12931>>, <<33247, 12932>>, <<33248, 12933>>,
       <<33249, 12934>>, <<33250, 12935>>, <<33251, 9624>>, <<33252, 12936>>, <<33253, 12937>>,
       <<33254, 12938>>, <<33255, 20062>>, <<33256, 12939>>, <<33257, 12940>>, <<33258, 16488>>,
       <<33259, 12941>>, <<33260, 21957>>, <<33261, 9680>>, <<33262, 12942>>, <<33263, 12943>>,
       <<33264, 12944>>, <<33265, 12945>>, <<33266, 12946>>, <<33267, 16279>>, <<33268, 16280>>,
       <<33269, 12947>>, <<33270, 12948>>, <<33271, 12949>>, <<33272, 12950>>, <<33273, 12951>>,
       <<33274, 12952>>, <<33275, 16129>>, <<33276, 11728>>, <<33277, 12953>>, <<33278, 21953>>,
       <<33279, 12954>>, <<33280, 15494>>, <<33281, 21954>>, <<33282, 21955>>, <<33283, 12955>>,
       <<33284, 21956>>, <<33285, 11729>>, <<33286, 15739>>, <<33287, 12956>>, <<33288, 12957>>,
       <<33289, 12958>>, <<33290, 12959>>, <<33291, 12960>>, <<33292, 13840>>, <<33293, 13841>>,
       <<33294, 12961>>, <<33295, 12962>>, <<33296, 21790>>, <<33297, 12963>>, <<33298, 14036>>,
       <<33299, 12964>>, <<33300, 14428>>, <<33301, 12965>>, <<33302, 12966>>, <<33303, 12967>>,
       <<33304, 12968>>, <<33305, 12969>>, <<33306, 12970>>, <<33307, 18548>>, <<33308, 14176>>,
       <<33309, 12971>>, <<33310, 14798>>, <<33311, 16305>>, <<33312, 12972>>, <<33313, 21959>>,
       <<33314, 21960>>, <<33315, 21961>>, <<33316, 12973>>, <<33317, 12974>>, <<33318, 12975>>,
       <<33319, 12976>>, <<33320, 21964>>, <<33321, 12977>>, <<33322, 10955>>, <<33323, 21965>>,
       <<33324, 9093>>, <<33325, 21962>>, <<33326, 12978>>, <<33327, 21963>>, <<33328, 11498>>,
       <<33329, 9459>>, <<33330, 12979>>, <<33331, 21968>>, <<33332, 21969>>, <<33333, 10236>>,
       <<33334, 9422>>, <<33335, 14963>>, <<33336, 21966>>, <<33337, 9798>>, <<33338, 12980>>,
       <<33339, 21967>>, <<33340, 12981>>, <<33341, 12982>>, <<33342, 21970>>, <<33343, 12983>>,
       <<33344, 12984>>, <<33345, 12985>>, <<33346, 12986>>, <<33347, 12987>>, <<33348, 21971>>,
       <<33349, 12988>>, <<33350, 12989>>, <<33351, 14543>>, <<33352, 12990>>, <<33353, 21972>>,
       <<33354, 12991>>, <<33355, 21973>>, <<33356, 12992>>, <<33357, 12993>>, <<33358, 12994>>,
       <<33359, 21974>>, <<33360, 12995>>, <<33361, 12996>>, <<33362, 12997>>, <<33363, 12998>>,
       <<33364, 12999>>, <<33365, 13000>>, <<33366, 13001>>, <<33367, 13002>>, <<33368, 14206>>,
       <<33369, 13003>>, <<33370, 21975>>, <<33371, 13004>>, <<33372, 13005>>, <<33373, 13006>>,
       <<33374, 13007>>, <<33375, 21976>>, <<33376, 13008>>, <<33377, 13009>>, <<33378, 13010>>,
       <<33379, 13011>>, <<33380, 13012>>, <<33381, 13013>>, <<33382, 13014>>, <<33383, 13015>>,
       <<33384, 21977>>, <<33385, 13016>>, <<33386, 13111>>, <<33387, 13112>>, <<33388, 13113>>,
       <<33389, 13114>>, <<33390, 22008>>, <<33391, 12284>>, <<33392, 11378>>, <<33393, 13115>>,
       <<33394, 13787>>, <<33395, 15358>>, <<33396, 19181>>, <<33397, 13116>>, <<33398, 13117>>,
       <<33399, 13118>>, <<33400, 13119>>, <<33401, 17405>>, <<33402, 15539>>, <<33403, 13120>>,
       <<33404, 13121>>, <<33405, 17406>>, <<33406, 9038>>, <<33407, 17407>>, <<33408, 13122>>,
       <<33409, 13123>>, <<33410, 11554>>, <<33411, 13124>>, <<33412, 17411>>, <<33413, 13125>>,
       <<33414, 13126>>, <<33415, 13127>>, <<33416, 16660>>, <<33417, 13128>>, <<33418, 17409>>,
       <<33419, 15759>>, <<33420, 13129>>, <<33421, 13830>>, <<33422, 17412>>, <<33423, 17408>>,
       <<33424, 13130>>, <<33425, 17413>>, <<33426, 12638>>, <<33427, 13131>>, <<33428, 13132>>,
       <<33429, 13133>>, <<33430, 13134>>, <<33431, 17414>>, <<33432, 17423>>, <<33433, 17415>>,
       <<33434, 13135>>, <<33435, 13136>>, <<33436, 14789>>, <<33437, 16251>>, <<33438, 13137>>,
       <<33439, 17433>>, <<33440, 13138>>, <<33441, 17431>>, <<33442, 13139>>, <<33443, 13140>>,
       <<33444, 17436>>, <<33445, 11566>>, <<33446, 12457>>, <<33447, 13141>>, <<33448, 17410>>,
       <<33449, 17429>>, <<33450, 17432>>, <<33451, 17416>>, <<33452, 10406>>, <<33453, 9063>>,
       <<33454, 17425>>, <<33455, 15136>>, <<33456, 17419>>, <<33457, 11124>>, <<33458, 13142>>,
       <<33459, 10384>>, <<33460, 17430>>, <<33461, 13143>>, <<33462, 13144>>, <<33463, 17424>>,
       <<33464, 17417>>, <<33465, 13455>>, <<33466, 13145>>, <<33467, 13146>>, <<33468, 13147>>,
       <<33469, 15327>>, <<33470, 17418>>, <<33471, 13148>>, <<33472, 13149>>, <<33473, 17428>>,
       <<33474, 13150>>, <<33475, 13151>>, <<33476, 17434>>, <<33477, 13152>>, <<33478, 13153>>,
       <<33479, 14739>>, <<33480, 17420>>, <<33481, 13154>>, <<33482, 17421>>, <<33483, 17426>>,
       <<33484, 17427>>, <<33485, 9458>>, <<33486, 17435>>, <<33487, 14209>>, <<33488, 13155>>,
       <<33489, 15889>>, <<33490, 17445>>, <<33491, 17449>>, <<33492, 14352>>, <<33493, 17456>>,
       <<33494, 13156>>, <<33495, 12707>>, <<33496, 17446>>, <<33497, 13157>>, <<33498, 13158>>,
       <<33499, 11909>>, <<33500, 17443>>, <<33501, 13159>>, <<33502, 9116>>, <<33503, 10758>>,
       <<33504, 17455>>, <<33505, 17437>>, <<33506, 13160>>, <<33507, 17422>>, <<33508, 17440>>,
       <<33509, 13670>>, <<33510, 11940>>, <<33511, 13161>>, <<33512, 13162>>, <<33513, 13163>>,
       <<33514, 13164>>, <<33515, 13803>>, <<33516, 13165>>, <<33517, 13166>>, <<33518, 13167>>,
       <<33519, 9245>>, <<33520, 13168>>, <<33521, 15678>>, <<33522, 13169>>, <<33523, 13170>>,
       <<33524, 17444>>, <<33525, 13171>>, <<33526, 13172>>, <<33527, 17439>>, <<33528, 13173>>,
       <<33529, 13233>>, <<33530, 13174>>, <<33531, 17448>>, <<33532, 13175>>, <<33533, 13176>>,
       <<33534, 13177>>, <<33535, 13178>>, <<33536, 13179>>, <<33537, 16470>>, <<33538, 12651>>,
       <<33539, 10378>>, <<33540, 13445>>, <<33541, 12645>>, <<33542, 17452>>, <<33543, 17442>>,
       <<33544, 17461>>, <<33545, 17438>>, <<33546, 13180>>, <<33547, 13181>>, <<33548, 17447>>,
       <<33549, 13182>>, <<33550, 11691>>, <<33551, 17441>>, <<33552, 13183>>, <<33553, 17450>>,
       <<33554, 13184>>, <<33555, 13185>>, <<33556, 17453>>, <<33557, 17454>>, <<33558, 13186>>,
       <<33559, 17474>>, <<33560, 13187>>, <<33561, 13188>>, <<33562, 17451>>, <<33563, 17578>>,
       <<33564, 17457>>, <<33565, 13189>>, <<33566, 13190>>, <<33567, 13191>>, <<33568, 13192>>,
       <<33569, 13193>>, <<33570, 13194>>, <<33571, 13195>>, <<33572, 13196>>, <<33573, 13197>>,
       <<33574, 13198>>, <<33575, 11381>>, <<33576, 9822>>, <<33577, 13199>>, <<33578, 13200>>,
       <<33579, 12639>>, <<33580, 9477>>, <<33581, 17476>>, <<33582, 13201>>, <<33583, 17468>>,
       <<33584, 13202>>, <<33585, 17465>>, <<33586, 13203>>, <<33587, 17478>>, <<33588, 17464>>,
       <<33589, 15566>>, <<33590, 9478>>, <<33591, 13204>>, <<33592, 13641>>, <<33593, 13653>>,
       <<33594, 17477>>, <<33595, 13205>>, <<33596, 17463>>, <<33597, 13206>>, <<33598, 13301>>,
       <<33599, 13302>>, <<33600, 17473>>, <<33601, 13303>>, <<33602, 13304>>, <<33603, 17471>>,
       <<33604, 13305>>, <<33605, 13306>>, <<33606, 11689>>, <<33607, 17470>>, <<33608, 13307>>,
       <<33609, 9467>>, <<33610, 13308>>, <<33611, 13309>>, <<33612, 13310>>, <<33613, 13311>>,
       <<33614, 13312>>, <<33615, 17469>>, <<33616, 11392>>, <<33617, 17458>>, <<33618, 11152>>,
       <<33619, 13313>>, <<33620, 12149>>, <<33621, 13314>>, <<33622, 13315>>, <<33623, 13316>>,
       <<33624, 13317>>, <<33625, 13318>>, <<33626, 11358>>, <<33627, 17459>>, <<33628, 17460>>,
       <<33629, 13319>>, <<33630, 17467>>, <<33631, 17472>>, <<33632, 17475>>, <<33633, 9996>>,
       <<33634, 13320>>, <<33635, 13643>>, <<33636, 11187>>, <<33637, 17480>>, <<33638, 17479>>,
       <<33639, 15687>>, <<33640, 17577>>, <<33641, 17579>>, <<33642, 17581>>, <<33643, 15567>>,
       <<33644, 17580>>, <<33645, 17582>>, <<33646, 17583>>, <<33647, 15495>>, <<33648, 13321>>,
       <<33649, 13322>>, <<33650, 13323>>, <<33651, 13324>>, <<33652, 13325>>, <<33653, 13326>>,
       <<33654, 13327>>, <<33655, 10967>>, <<33656, 17585>>, <<33657, 13328>>, <<33658, 13329>>,
       <<33659, 17598>>, <<33660, 17593>>, <<33661, 17596>>, <<33662, 13330>>, <<33663, 13331>>,
       <<33664, 13332>>, <<33665, 13333>>, <<33666, 13334>>, <<33667, 13335>>, <<33668, 13336>>,
       <<33669, 17592>>, <<33670, 13252>>, <<33671, 13337>>, <<33672, 13338>>, <<33673, 12148>>,
       <<33674, 13339>>, <<33675, 13340>>, <<33676, 13341>>, <<33677, 13342>>, <<33678, 13791>>,
       <<33679, 13343>>, <<33680, 13344>>, <<33681, 13345>>, <<33682, 17462>>, <<33683, 17590>>,
       <<33684, 13346>>, <<33685, 13347>>, <<33686, 13348>>, <<33687, 13349>>, <<33688, 17599>>,
       <<33689, 13350>>, <<33690, 13351>>, <<33691, 17466>>, <<33692, 17591>>, <<33693, 13352>>,
       <<33694, 17600>>, <<33695, 13353>>, <<33696, 17588>>, <<33697, 13354>>, <<33698, 13355>>,
       <<33699, 13356>>, <<33700, 13357>>, <<33701, 13358>>, <<33702, 13359>>, <<33703, 13360>>,
       <<33704, 17601>>, <<33705, 17595>>, <<33706, 17589>>, <<33707, 12836>>, <<33708, 13361>>,
       <<33709, 13362>>, <<33710, 13363>>, <<33711, 13364>>, <<33712, 17584>>, <<33713, 12085>>,
       <<33714, 12267>>, <<33715, 17586>>, <<33716, 17587>>, <<33717, 13365>>, <<33718, 17594>>,
       <<33719, 11197>>, <<33720, 17597>>, <<33721, 15684>>, <<33722, 17602>>, <<33723, 13366>>,
       <<33724, 17603>>, <<33725, 12643>>, <<33726, 13367>>, <<33727, 13368>>, <<33728, 17626>>,
       <<33729, 17604>>, <<33730, 13369>>, <<33731, 13370>>, <<33732, 13371>>, <<33733, 17625>>,
       <<33734, 13372>>, <<33735, 10765>>, <<33736, 13373>>, <<33737, 13374>>, <<33738, 11739>>,
       <<33739, 13375>>, <<33740, 11776>>, <<33741, 13376>>, <<33742, 13377>>, <<33743, 10968>>,
       <<33744, 13378>>, <<33745, 13379>>, <<33746, 13380>>, <<33747, 13381>>, <<33748, 17618>>,
       <<33749, 13382>>, <<33750, 17613>>, <<33751, 13383>>, <<33752, 17607>>, <<33753, 13384>>,
       <<33754, 13385>>, <<33755, 13386>>, <<33756, 9449>>, <<33757, 17611>>, <<33758, 13387>>,
       <<33759, 17619>>, <<33760, 9410>>, <<33761, 17629>>, <<33762, 13388>>, <<33763, 13389>>,
       <<33764, 13390>>, <<33765, 17606>>, <<33766, 13391>>, <<33767, 13392>>, <<33768, 13393>>,
       <<33769, 13254>>, <<33770, 17624>>, <<33771, 13394>>, <<33772, 13395>>, <<33773, 13396>>,
       <<33774, 13491>>, <<33775, 13492>>, <<33776, 17628>>, <<33777, 12322>>, <<33778, 10394>>,
       <<33779, 13493>>, <<33780, 13494>>, <<33781, 13495>>, <<33782, 13496>>, <<33783, 13497>>,
       <<33784, 17622>>, <<33785, 17623>>, <<33786, 13498>>, <<33787, 13499>>, <<33788, 13500>>,
       <<33789, 17612>>, <<33790, 13501>>, <<33791, 13502>>, <<33792, 13503>>, <<33793, 17605>>,
       <<33794, 13504>>, <<33795, 17621>>, <<33796, 14395>>, <<33797, 13505>>, <<33798, 17617>>,
       <<33799, 13506>>, <<33800, 13507>>, <<33801, 13508>>, <<33802, 13509>>, <<33803, 17610>>,
       <<33804, 12676>>, <<33805, 13234>>, <<33806, 14740>>, <<33807, 17620>>, <<33808, 13510>>,
       <<33809, 17616>>, <<33810, 13511>>, <<33811, 13512>>, <<33812, 13513>>, <<33813, 13514>>,
       <<33814, 13515>>, <<33815, 13516>>, <<33816, 17609>>, <<33817, 13517>>, <<33818, 13518>>,
       <<33819, 13519>>, <<33820, 17614>>, <<33821, 12506>>, <<33822, 13520>>, <<33823, 13521>>,
       <<33824, 13522>>, <<33825, 13523>>, <<33826, 13524>>, <<33827, 13525>>, <<33828, 15685>>,
       <<33829, 15686>>, <<33830, 17627>>, <<33831, 15000>>, <<33832, 13674>>, <<33833, 13526>>,
       <<33834, 13527>>, <<33835, 13528>>, <<33836, 13529>>, <<33837, 13530>>, <<33838, 13531>>,
       <<33839, 13532>>, <<33840, 13533>>, <<33841, 17646>>, <<33842, 13534>>, <<33843, 13535>>,
       <<33844, 13536>>, <<33845, 13537>>, <<33846, 13538>>, <<33847, 13539>>, <<33848, 17615>>,
       <<33849, 13540>>, <<33850, 13541>>, <<33851, 13542>>, <<33852, 17640>>, <<33853, 12514>>,
       <<33854, 13543>>, <<33855, 13544>>, <<33856, 13545>>, <<33857, 13546>>, <<33858, 13547>>,
       <<33859, 13548>>, <<33860, 13549>>, <<33861, 13550>>, <<33862, 17641>>, <<33863, 13551>>,
       <<33864, 13552>>, <<33865, 13553>>, <<33866, 13554>>, <<33867, 13555>>, <<33868, 13556>>,
       <<33869, 13557>>, <<33870, 13558>>, <<33871, 13559>>, <<33872, 13560>>, <<33873, 17631>>,
       <<33874, 13561>>, <<33875, 13562>>, <<33876, 13563>>, <<33877, 13564>>, <<33878, 13565>>,
       <<33879, 16334>>, <<33880, 13566>>, <<33881, 17633>>, <<33882, 17632>>, <<33883, 10626>>,
       <<33884, 17630>>, <<33885, 13567>>, <<33886, 13568>>, <<33887, 13569>>, <<33888, 13570>>,
       <<33889, 13253>>, <<33890, 13571>>, <<33891, 10179>>, <<33892, 13572>>, <<33893, 13573>>,
       <<33894, 13574>>, <<33895, 13575>>, <<33896, 13576>>, <<33897, 17642>>, <<33898, 13577>>,
       <<33899, 11015>>, <<33900, 15931>>, <<33901, 17647>>, <<33902, 13578>>, <<33903, 13579>>,
       <<33904, 13580>>, <<33905, 9834>>, <<33906, 13581>>, <<33907, 17634>>, <<33908, 13582>>,
       <<33909, 11967>>, <<33910, 17643>>, <<33911, 13583>>, <<33912, 17639>>, <<33913, 13584>>,
       <<33914, 17637>>, <<33915, 13585>>, <<33916, 13586>>, <<33917, 13681>>, <<33918, 13682>>,
       <<33919, 13683>>, <<33920, 13684>>, <<33921, 13685>>, <<33922, 10033>>, <<33923, 13686>>,
       <<33924, 13687>>, <<33925, 13688>>, <<33926, 13689>>, <<33927, 17635>>, <<33928, 17636>>,
       <<33929, 17638>>, <<33930, 13690>>, <<33931, 11511>>, <<33932, 17644>>, <<33933, 13691>>,
       <<33934, 17645>>, <<33935, 13692>>, <<33936, 13693>>, <<33937, 13694>>, <<33938, 13695>>,
       <<33939, 13696>>, <<33940, 13697>>, <<33941, 13698>>, <<33942, 13699>>, <<33943, 17661>>,
       <<33944, 13700>>, <<33945, 12677>>, <<33946, 13701>>, <<33947, 13702>>, <<33948, 14222>>,
       <<33949, 13703>>, <<33950, 13704>>, <<33951, 13705>>, <<33952, 13706>>, <<33953, 17658>>,
       <<33954, 13707>>, <<33955, 13708>>, <<33956, 13709>>, <<33957, 13710>>, <<33958, 13711>>,
       <<33959, 13712>>, <<33960, 13713>>, <<33961, 13714>>, <<33962, 13715>>, <<33963, 13716>>,
       <<33964, 13717>>, <<33965, 13718>>, <<33966, 13719>>, <<33967, 16691>>, <<33968, 13720>>,
       <<33969, 13721>>, <<33970, 13255>>, <<33971, 13722>>, <<33972, 17660>>, <<33973, 13723>>,
       <<33974, 13724>>, <<33975, 13725>>, <<33976, 16140>>, <<33977, 17659>>, <<33978, 17656>>,
       <<33979, 13726>>, <<33980, 13727>>, <<33981, 17652>>, <<33982, 13728>>, <<33983, 17655>>,
       <<33984, 13729>>, <<33985, 17648>>, <<33986, 13730>>, <<33987, 13731>>, <<33988, 15184>>,
       <<33989, 13732>>, <<33990, 13733>>, <<33991, 13734>>, <<33992, 13735>>, <<33993, 13642>>,
       <<33994, 17654>>, <<33995, 13736>>, <<33996, 13737>>, <<33997, 17649>>, <<33998, 13738>>,
       <<33999, 13739>>, <<34000, 17650>>, <<34001, 14238>>, <<34002, 13740>>, <<34003, 17653>>,
       <<34004, 13741>>, <<34005, 13742>>, <<34006, 9261>>, <<34007, 13743>>, <<34008, 13744>>,
       <<34009, 13745>>, <<34010, 13746>>, <<34011, 13747>>, <<34012, 13748>>, <<34013, 12088>>,
       <<34014, 13749>>, <<34015, 11333>>, <<34016, 17657>>, <<34017, 13750>>, <<34018, 13751>>,
       <<34019, 17663>>, <<34020, 13752>>, <<34021, 17662>>, <<34022, 17651>>, <<34023, 13753>>,
       <<34024, 13754>>, <<34025, 13755>>, <<34026, 13756>>, <<34027, 13757>>, <<34028, 13094>>,
       <<34029, 13758>>, <<34030, 13759>>, <<34031, 13760>>, <<34032, 17667>>, <<34033, 13761>>,
       <<34034, 13762>>, <<34035, 13763>>, <<34036, 13764>>, <<34037, 13765>>, <<34038, 13766>>,
       <<34039, 13767>>, <<34040, 13768>>, <<34041, 13769>>, <<34042, 13770>>, <<34043, 13771>>,
       <<34044, 17770>>, <<34045, 13772>>, <<34046, 13773>>, <<34047, 17769>>, <<34048, 13774>>,
       <<34049, 13775>>, <<34050, 13776>>, <<34051, 13871>>, <<34052, 13872>>, <<34053, 13873>>,
       <<34054, 13874>>, <<34055, 13875>>, <<34056, 13876>>, <<34057, 13877>>, <<34058, 13878>>,
       <<34059, 13879>>, <<34060, 17664>>, <<34061, 13880>>, <<34062, 13881>>, <<34063, 13882>>,
       <<34064, 13883>>, <<34065, 12715>>, <<34066, 13884>>, <<34067, 12537>>, <<34068, 13885>>,
       <<34069, 13886>>, <<34070, 13887>>, <<34071, 16121>>, <<34072, 13888>>, <<34073, 13889>>,
       <<34074, 14747>>, <<34075, 13890>>, <<34076, 13891>>, <<34077, 13892>>, <<34078, 13893>>,
       <<34079, 17669>>, <<34080, 13894>>, <<34081, 9450>>, <<34082, 13895>>, <<34083, 13896>>,
       <<34084, 13897>>, <<34085, 13898>>, <<34086, 13899>>, <<34087, 13900>>, <<34088, 13901>>,
       <<34089, 13902>>, <<34090, 13903>>, <<34091, 12898>>, <<34092, 14029>>, <<34093, 13904>>,
       <<34094, 13905>>, <<34095, 13906>>, <<34096, 13907>>, <<34097, 13908>>, <<34098, 13909>>,
       <<34099, 13910>>, <<34100, 13911>>, <<34101, 13912>>, <<34102, 13913>>, <<34103, 13426>>,
       <<34104, 17666>>, <<34105, 17668>>, <<34106, 17670>>, <<34107, 17768>>, <<34108, 9036>>,
       <<34109, 9262>>, <<34110, 13914>>, <<34111, 13915>>, <<34112, 13916>>, <<34113, 13917>>,
       <<34114, 13918>>, <<34115, 17778>>, <<34116, 13919>>, <<34117, 13920>>, <<34118, 13921>>,
       <<34119, 13922>>, <<34120, 17772>>, <<34121, 11518>>, <<34122, 13665>>, <<34123, 13923>>,
       <<34124, 13924>>, <<34125, 13925>>, <<34126, 13926>>, <<34127, 13927>>, <<34128, 13928>>,
       <<34129, 13929>>, <<34130, 13930>>, <<34131, 13931>>, <<34132, 13932>>, <<34133, 13933>>,
       <<34134, 17767>>, <<34135, 13934>>, <<34136, 13935>>, <<34137, 17771>>, <<34138, 13936>>,
       <<34139, 13937>>, <<34140, 13938>>, <<34141, 13939>>, <<34142, 17775>>, <<34143, 13940>>,
       <<34144, 13941>>, <<34145, 13942>>, <<34146, 13943>>, <<34147, 13944>>, <<34148, 17774>>,
       <<34149, 13945>>, <<34150, 13946>>, <<34151, 13947>>, <<34152, 17773>>, <<34153, 13948>>,
       <<34154, 13949>>, <<34155, 13950>>, <<34156, 13951>>, <<34157, 13952>>, <<34158, 13953>>,
       <<34159, 13954>>, <<34160, 13955>>, <<34161, 13956>>, <<34162, 17779>>, <<34163, 13957>>,
       <<34164, 15910>>, <<34165, 13958>>, <<34166, 13959>>, <<34167, 13960>>, <<34168, 13961>>,
       <<34169, 17785>>, <<34170, 17776>>, <<34171, 17780>>, <<34172, 13962>>, <<34173, 13963>>,
       <<34174, 12123>>, <<34175, 13964>>, <<34176, 13965>>, <<34177, 13966>>, <<34178, 14061>>,
       <<34179, 14062>>, <<34180, 9217>>, <<34181, 17788>>, <<34182, 14063>>, <<34183, 17783>>,
       <<34184, 14064>>, <<34185, 14065>>, <<34186, 14066>>, <<34187, 14067>>, <<34188, 14068>>,
       <<34189, 14069>>, <<34190, 14070>>, <<34191, 17784>>, <<34192, 14071>>, <<34193, 14072>>,
       <<34194, 14073>>, <<34195, 14074>>, <<34196, 14075>>, <<34197, 14076>>, <<34198, 14077>>,
       <<34199, 14078>>, <<34200, 14079>>, <<34201, 14080>>, <<34202, 14081>>, <<34203, 15302>>,
       <<34204, 17787>>, <<34205, 14082>>, <<34206, 14083>>, <<34207, 14084>>, <<34208, 14085>>,
       <<34209, 14086>>, <<34210, 14087>>, <<34211, 14088>>, <<34212, 17781>>, <<34213, 14089>>,
       <<34214, 14090>>, <<34215, 14091>>, <<34216, 17782>>, <<34217, 14092>>, <<34218, 15135>>,
       <<34219, 14093>>, <<34220, 14094>>, <<34221, 14095>>, <<34222, 17786>>, <<34223, 14043>>,
       <<34224, 17791>>, <<34225, 14096>>, <<34226, 14097>>, <<34227, 14098>>, <<34228, 14099>>,
       <<34229, 14100>>, <<34230, 14101>>, <<34231, 17790>>, <<34232, 14102>>, <<34233, 17789>>,
       <<34234, 14103>>, <<34235, 14104>>, <<34236, 14105>>, <<34237, 14106>>, <<34238, 14107>>,
       <<34239, 14108>>, <<34240, 14109>>, <<34241, 17793>>, <<34242, 14110>>, <<34243, 14111>>,
       <<34244, 14112>>, <<34245, 14113>>, <<34246, 14114>>, <<34247, 14115>>, <<34248, 14116>>,
       <<34249, 11565>>, <<34250, 14117>>, <<34251, 14118>>, <<34252, 14119>>, <<34253, 14120>>,
       <<34254, 14121>>, <<34255, 9462>>, <<34256, 12710>>, <<34257, 14122>>, <<34258, 14123>>,
       <<34259, 17792>>, <<34260, 14124>>, <<34261, 13042>>, <<34262, 14125>>, <<34263, 14126>>,
       <<34264, 14127>>, <<34265, 14128>>, <<34266, 14129>>, <<34267, 14130>>, <<34268, 17794>>,
       <<34269, 14131>>, <<34270, 14132>>, <<34271, 14133>>, <<34272, 14134>>, <<34273, 14135>>,
       <<34274, 14136>>, <<34275, 14137>>, <<34276, 14403>>, <<34277, 14138>>, <<34278, 14139>>,
       <<34279, 14140>>, <<34280, 14141>>, <<34281, 10366>>, <<34282, 14142>>, <<34283, 14143>>,
       <<34284, 14144>>, <<34285, 14145>>, <<34286, 14146>>, <<34287, 14147>>, <<34288, 14148>>,
       <<34289, 14149>>, <<34290, 14150>>, <<34291, 14151>>, <<34292, 14152>>, <<34293, 14153>>,
       <<34294, 14154>>, <<34295, 14155>>, <<34296, 14156>>, <<34297, 14251>>, <<34298, 14252>>,
       <<34299, 15935>>, <<34300, 14253>>, <<34301, 14254>>, <<34302, 14255>>, <<34303, 17795>>,
       <<34304, 14256>>, <<34305, 14257>>, <<34306, 14258>>, <<34307, 14259>>, <<34308, 14260>>,
       <<34309, 17797>>, <<34310, 14261>>, <<34311, 14262>>, <<34312, 14263>>, <<34313, 14264>>,
       <<34314, 14265>>, <<34315, 14266>>, <<34316, 14267>>, <<34317, 14268>>, <<34318, 14269>>,
       <<34319, 14270>>, <<34320, 14271>>, <<34321, 12828>>, <<34322, 14272>>, <<34323, 14273>>,
       <<34324, 14274>>, <<34325, 14275>>, <<34326, 17799>>, <<34327, 14276>>, <<34328, 14277>>,
       <<34329, 14278>>, <<34330, 14279>>, <<34331, 14280>>, <<34332, 14281>>, <<34333, 14282>>,
       <<34334, 14283>>, <<34335, 14284>>, <<34336, 14285>>, <<34337, 14286>>, <<34338, 14287>>,
       <<34339, 14288>>, <<34340, 14289>>, <<34341, 14290>>, <<34342, 14291>>, <<34343, 17796>>,
       <<34344, 14292>>, <<34345, 17798>>, <<34346, 14293>>, <<34347, 14294>>, <<34348, 14295>>,
       <<34349, 14296>>, <<34350, 14297>>, <<34351, 14298>>, <<34352, 14299>>, <<34353, 14300>>,
       <<34354, 14301>>, <<34355, 14302>>, <<34356, 14303>>, <<34357, 14304>>, <<34358, 14305>>,
       <<34359, 14306>>, <<34360, 16082>>, <<34361, 14307>>, <<34362, 14308>>, <<34363, 14309>>,
       <<34364, 17800>>, <<34365, 14310>>, <<34366, 14311>>, <<34367, 14312>>, <<34368, 14313>>,
       <<34369, 14314>>, <<34370, 14315>>, <<34371, 14316>>, <<34372, 14317>>, <<34373, 14318>>,
       <<34374, 14319>>, <<34375, 14320>>, <<34376, 14321>>, <<34377, 14322>>, <<34378, 14323>>,
       <<34379, 14324>>, <<34380, 14325>>, <<34381, 21580>>, <<34382, 11118>>, <<34383, 12464>>,
       <<34384, 13032>>, <<34385, 12485>>, <<34386, 14326>>, <<34387, 14327>>, <<34388, 21581>>,
       <<34389, 14328>>, <<34390, 14329>>, <<34391, 14330>>, <<34392, 14331>>, <<34393, 14332>>,
       <<34394, 15179>>, <<34395, 14333>>, <<34396, 14334>>, <<34397, 14335>>, <<34398, 15737>>,
       <<34399, 14336>>, <<34400, 14337>>, <<34401, 14338>>, <<34402, 20265>>, <<34403, 14339>>,
       <<34404, 14340>>, <<34405, 14341>>, <<34406, 14342>>, <<34407, 14343>>, <<34408, 14344>>,
       <<34409, 14345>>, <<34410, 14346>>, <<34411, 9666>>, <<34412, 21582>>, <<34413, 14441>>,
       <<34414, 21583>>, <<34415, 14442>>, <<34416, 14443>>, <<34417, 13979>>, <<34418, 14444>>,
       <<34419, 14445>>, <<34420, 14446>>, <<34421, 14447>>, <<34422, 14448>>, <<34423, 14449>>,
       <<34424, 14450>>, <<34425, 10997>>, <<34426, 21585>>, <<34427, 21587>>, <<34428, 21586>>,
       <<34429, 14224>>, <<34430, 14942>>, <<34431, 21584>>, <<34432, 13986>>, <<34433, 15533>>,
       <<34434, 12522>>, <<34435, 14451>>, <<34436, 14452>>, <<34437, 14453>>, <<34438, 14454>>,
       <<34439, 14455>>, <<34440, 14456>>, <<34441, 14457>>, <<34442, 14761>>, <<34443, 21590>>,
       <<34444, 9112>>, <<34445, 21589>>, <<34446, 14458>>, <<34447, 14459>>, <<34448, 14460>>,
       <<34449, 14461>>, <<34450, 14462>>, <<34451, 21596>>, <<34452, 14463>>, <<34453, 9453>>,
       <<34454, 14464>>, <<34455, 14465>>, <<34456, 14466>>, <<34457, 14467>>, <<34458, 14468>>,
       <<34459, 14469>>, <<34460, 15329>>, <<34461, 21592>>, <<34462, 14470>>, <<34463, 14471>>,
       <<34464, 14472>>, <<34465, 14473>>, <<34466, 14474>>, <<34467, 21594>>, <<34468, 15939>>,
       <<34469, 14475>>, <<34470, 14476>>, <<34471, 21593>>, <<34472, 21588>>, <<34473, 21597>>,
       <<34474, 21595>>, <<34475, 14477>>, <<34476, 21591>>, <<34477, 14478>>, <<34478, 14479>>,
       <<34479, 21605>>, <<34480, 21602>>, <<34481, 21604>>, <<34482, 14480>>, <<34483, 14481>>,
       <<34484, 21608>>, <<34485, 21600>>, <<34486, 21598>>, <<34487, 14482>>, <<34488, 14483>>,
       <<34489, 14484>>, <<34490, 21603>>, <<34491, 14485>>, <<34492, 14486>>, <<34493, 14487>>,
       <<34494, 14488>>, <<34495, 14489>>, <<34496, 16337>>, <<34497, 14490>>, <<34498, 14491>>,
       <<34499, 14492>>, <<34500, 21599>>, <<34501, 14493>>, <<34502, 13485>>, <<34503, 13839>>,
       <<34504, 14494>>, <<34505, 21606>>, <<34506, 10774>>, <<34507, 9992>>, <<34508, 14495>>,
       <<34509, 14496>>, <<34510, 21601>>, <<34511, 21607>>, <<34512, 21614>>, <<34513, 21620>>,
       <<34514, 14497>>, <<34515, 14498>>, <<34516, 11171>>, <<34517, 14499>>, <<34518, 14500>>,
       <<34519, 14501>>, <<34520, 21619>>, <<34521, 14596>>, <<34522, 14502>>, <<34523, 16321>>,
       <<34524, 14503>>, <<34525, 14504>>, <<34526, 21616>>, <<34527, 21618>>, <<34528, 14505>>,
       <<34529, 14506>>, <<34530, 14507>>, <<34531, 14508>>, <<34532, 10628>>, <<34533, 14509>>,
       <<34534, 14510>>, <<34535, 14511>>, <<34536, 14512>>, <<34537, 21609>>, <<34538, 14513>>,
       <<34539, 14514>>, <<34540, 14515>>, <<34541, 21612>>, <<34542, 12535>>, <<34543, 14516>>,
       <<34544, 16117>>, <<34545, 21610>>, <<34546, 21611>>, <<34547, 21613>>, <<34548, 21617>>,
       <<34549, 14517>>, <<34550, 14518>>, <<34551, 14519>>, <<34552, 21623>>, <<34553, 15704>>,
       <<34554, 14520>>, <<34555, 14521>>, <<34556, 14522>>, <<34557, 14523>>, <<34558, 10240>>,
       <<34559, 14524>>, <<34560, 14047>>, <<34561, 14525>>, <<34562, 10424>>, <<34563, 21621>>,
       <<34564, 14526>>, <<34565, 14527>>, <<34566, 14528>>, <<34567, 21622>>, <<34568, 21624>>,
       <<34569, 21627>>, <<34570, 21625>>, <<34571, 14529>>, <<34572, 14530>>, <<34573, 21626>>,
       <<34574, 14531>>, <<34575, 14532>>, <<34576, 14533>>, <<34577, 14534>>, <<34578, 15345>>,
       <<34579, 21615>>, <<34580, 14535>>, <<34581, 14577>>, <<34582, 14536>>, <<34583, 14773>>,
       <<34584, 16255>>, <<34585, 14631>>, <<34586, 21633>>, <<34587, 14632>>, <<34588, 12695>>,
       <<34589, 14633>>, <<34590, 21630>>, <<34591, 14634>>, <<34592, 14635>>, <<34593, 12081>>,
       <<34594, 21642>>, <<34595, 21628>>, <<34596, 14636>>, <<34597, 21631>>, <<34598, 14637>>,
       <<34599, 14638>>, <<34600, 14639>>, <<34601, 21638>>, <<34602, 14640>>, <<34603, 14641>>,
       <<34604, 14642>>, <<34605, 14643>>, <<34606, 21632>>, <<34607, 14644>>, <<34608, 14645>>,
       <<34609, 21637>>, <<34610, 14646>>, <<34611, 14647>>, <<34612, 21636>>, <<34613, 14648>>,
       <<34614, 14649>>, <<34615, 21639>>, <<34616, 14650>>, <<34617, 14651>>, <<34618, 14652>>,
       <<34619, 21629>>, <<34620, 14653>>, <<34621, 14654>>, <<34622, 21634>>, <<34623, 21640>>,
       <<34624, 14655>>, <<34625, 14656>>, <<34626, 14657>>, <<34627, 14658>>, <<34628, 14659>>,
       <<34629, 14660>>, <<34630, 14661>>, <<34631, 15688>>, <<34632, 21635>>, <<34633, 9491>>,
       <<34634, 14662>>, <<34635, 14663>>, <<34636, 21648>>, <<34637, 14664>>, <<34638, 15117>>,
       <<34639, 14665>>, <<34640, 14666>>, <<34641, 14667>>, <<34642, 14668>>, <<34643, 21651>>,
       <<34644, 14669>>, <<34645, 14670>>, <<34646, 14671>>, <<34647, 11156>>, <<34648, 14672>>,
       <<34649, 21655>>, <<34650, 14673>>, <<34651, 14674>>, <<34652, 14675>>, <<34653, 14676>>,
       <<34654, 14677>>, <<34655, 14678>>, <<34656, 21646>>, <<34657, 14679>>, <<34658, 14680>>,
       <<34659, 21652>>, <<34660, 21654>>, <<34661, 21656>>, <<34662, 14681>>, <<34663, 14682>>,
       <<34664, 14683>>, <<34665, 14684>>, <<34666, 14685>>, <<34667, 14686>>, <<34668, 14687>>,
       <<34669, 14688>>, <<34670, 21649>>, <<34671, 14689>>, <<34672, 21647>>, <<34673, 14690>>,
       <<34674, 14691>>, <<34675, 14692>>, <<34676, 11017>>, <<34677, 14693>>, <<34678, 10067>>,
       <<34679, 14694>>, <<34680, 14695>>, <<34681, 14696>>, <<34682, 14697>>, <<34683, 21645>>,
       <<34684, 21653>>, <<34685, 21643>>, <<34686, 21644>>, <<34687, 14698>>, <<34688, 14699>>,
       <<34689, 14700>>, <<34690, 21641>>, <<34691, 21762>>, <<34692, 14701>>, <<34693, 21759>>,
       <<34694, 14702>>, <<34695, 14703>>, <<34696, 21758>>, <<34697, 14704>>, <<34698, 14705>>,
       <<34699, 21650>>, <<34700, 14706>>, <<34701, 13644>>, <<34702, 14707>>, <<34703, 14708>>,
       <<34704, 14709>>, <<34705, 14710>>, <<34706, 14711>>, <<34707, 21657>>, <<34708, 14712>>,
       <<34709, 14713>>, <<34710, 14714>>, <<34711, 21761>>, <<34712, 14715>>, <<34713, 14716>>,
       <<34714, 14717>>, <<34715, 14718>>, <<34716, 14719>>, <<34717, 14720>>, <<34718, 14721>>,
       <<34719, 12724>>, <<34720, 14722>>, <<34721, 14723>>, <<34722, 14724>>, <<34723, 14725>>,
       <<34724, 14726>>, <<34725, 14821>>, <<34726, 14822>>, <<34727, 14823>>, <<34728, 21659>>,
       <<34729, 14824>>, <<34730, 14825>>, <<34731, 21763>>, <<34732, 21765>>, <<34733, 21760>>,
       <<34734, 14826>>, <<34735, 21658>>, <<34736, 14827>>, <<34737, 14828>>, <<34738, 14829>>,
       <<34739, 21767>>, <<34740, 14830>>, <<34741, 21766>>, <<34742, 14831>>, <<34743, 14832>>,
       <<34744, 14833>>, <<34745, 14834>>, <<34746, 12507>>, <<34747, 14835>>, <<34748, 14836>>,
       <<34749, 21770>>, <<34750, 14837>>, <<34751, 14838>>, <<34752, 21772>>, <<34753, 14839>>,
       <<34754, 14840>>, <<34755, 14841>>, <<34756, 14842>>, <<34757, 14843>>, <<34758, 21757>>,
       <<34759, 14844>>, <<34760, 14845>>, <<34761, 14846>>, <<34762, 21773>>, <<34763, 21768>>,
       <<34764, 14847>>, <<34765, 14848>>, <<34766, 14849>>, <<34767, 14850>>, <<34768, 14851>>,
       <<34769, 21771>>, <<34770, 21660>>, <<34771, 21769>>, <<34772, 14852>>, <<34773, 14853>>,
       <<34774, 14854>>, <<34775, 14855>>, <<34776, 14856>>, <<34777, 14857>>, <<34778, 14858>>,
       <<34779, 21774>>, <<34780, 14859>>, <<34781, 14860>>, <<34782, 14861>>, <<34783, 14862>>,
       <<34784, 21776>>, <<34785, 14863>>, <<34786, 14864>>, <<34787, 14865>>, <<34788, 14866>>,
       <<34789, 21764>>, <<34790, 14867>>, <<34791, 14868>>, <<34792, 14869>>, <<34793, 14870>>,
       <<34794, 21775>>, <<34795, 14871>>, <<34796, 14872>>, <<34797, 14873>>, <<34798, 21777>>,
       <<34799, 14874>>, <<34800, 14875>>, <<34801, 14876>>, <<34802, 14877>>, <<34803, 14878>>,
       <<34804, 14879>>, <<34805, 14880>>, <<34806, 14881>>, <<34807, 14882>>, <<34808, 14883>>,
       <<34809, 15129>>, <<34810, 14884>>, <<34811, 14885>>, <<34812, 14886>>, <<34813, 14887>>,
       <<34814, 21780>>, <<34815, 14888>>, <<34816, 14889>>, <<34817, 14890>>, <<34818, 14891>>,
       <<34819, 16905>>, <<34820, 14892>>, <<34821, 14893>>, <<34822, 14894>>, <<34823, 14895>>,
       <<34824, 14896>>, <<34825, 14897>>, <<34826, 21781>>, <<34827, 14898>>, <<34828, 14899>>,
       <<34829, 14900>>, <<34830, 14901>>, <<34831, 14902>>, <<34832, 14903>>, <<34833, 14904>>,
       <<34834, 14905>>, <<34835, 21779>>, <<34836, 14906>>, <<34837, 13654>>, <<34838, 21778>>,
       <<34839, 14907>>, <<34840, 14908>>, <<34841, 14909>>, <<34842, 14910>>, <<34843, 21782>>,
       <<34844, 14911>>, <<34845, 14912>>, <<34846, 14913>>, <<34847, 14914>>, <<34848, 14915>>,
       <<34849, 21783>>, <<34850, 9818>>, <<34851, 14916>>, <<34852, 15011>>, <<34853, 15012>>,
       <<34854, 15013>>, <<34855, 15014>>, <<34856, 15015>>, <<34857, 15016>>, <<34858, 15017>>,
       <<34859, 15018>>, <<34860, 15019>>, <<34861, 15020>>, <<34862, 15021>>, <<34863, 15022>>,
       <<34864, 15023>>, <<34865, 15024>>, <<34866, 20841>>, <<34867, 15025>>, <<34868, 15026>>,
       <<34869, 15027>>, <<34870, 15028>>, <<34871, 15029>>, <<34872, 15030>>, <<34873, 21784>>,
       <<34874, 15031>>, <<34875, 15032>>, <<34876, 21785>>, <<34877, 15033>>, <<34878, 15034>>,
       <<34879, 15035>>, <<34880, 15306>>, <<34881, 15036>>, <<34882, 15037>>, <<34883, 15038>>,
       <<34884, 21958>>, <<34885, 15144>>, <<34886, 15039>>, <<34887, 15040>>, <<34888, 15041>>,
       <<34889, 15042>>, <<34890, 15043>>, <<34891, 15044>>, <<34892, 15154>>, <<34893, 15356>>,
       <<34894, 15045>>, <<34895, 15046>>, <<34896, 15047>>, <<34897, 15048>>, <<34898, 15049>>,
       <<34899, 15050>>, <<34900, 14962>>, <<34901, 15051>>, <<34902, 15052>>, <<34903, 11550>>,
       <<34904, 15053>>, <<34905, 15331>>, <<34906, 15054>>, <<34907, 15055>>, <<34908, 15056>>,
       <<34909, 15057>>, <<34910, 15058>>, <<34911, 15059>>, <<34912, 15060>>, <<34913, 10992>>,
       <<34914, 18409>>, <<34915, 15520>>, <<34916, 21410>>, <<34917, 9431>>, <<34918, 15061>>,
       <<34919, 15062>>, <<34920, 9293>>, <<34921, 21411>>, <<34922, 15063>>, <<34923, 13808>>,
       <<34924, 9632>>, <<34925, 15064>>, <<34926, 16898>>, <<34927, 15065>>, <<34928, 14161>>,
       <<34929, 15066>>, <<34930, 21412>>, <<34931, 15067>>, <<34932, 15068>>, <<34933, 15069>>,
       <<34934, 15070>>, <<34935, 16298>>, <<34936, 15071>>, <<34937, 15072>>, <<34938, 15073>>,
       <<34939, 15074>>, <<34940, 15075>>, <<34941, 21413>>, <<34942, 21978>>, <<34943, 21414>>,
       <<34944, 15076>>, <<34945, 15878>>, <<34946, 21415>>, <<34947, 15077>>, <<34948, 9058>>,
       <<34949, 21979>>, <<34950, 15078>>, <<34951, 15079>>, <<34952, 21980>>, <<34953, 15080>>,
       <<34954, 15081>>, <<34955, 9878>>, <<34956, 15082>>, <<34957, 13075>>, <<34958, 15083>>,
       <<34959, 15084>>, <<34960, 15085>>, <<34961, 15086>>, <<34962, 14373>>, <<34963, 15087>>,
       <<34964, 15088>>, <<34965, 15089>>, <<34966, 15174>>, <<34967, 15090>>, <<34968, 15091>>,
       <<34969, 15092>>, <<34970, 15093>>, <<34971, 15094>>, <<34972, 14600>>, <<34973, 15095>>,
       <<34974, 15096>>, <<34975, 15097>>, <<34976, 15098>>, <<34977, 15099>>, <<34978, 21416>>,
       <<34979, 15100>>, <<34980, 16899>>, <<34981, 15101>>, <<34982, 15102>>, <<34983, 15103>>,
       <<34984, 15104>>, <<34985, 15105>>, <<34986, 15106>>, <<34987, 9243>>, <<34988, 15201>>,
       <<34989, 14930>>, <<34990, 15202>>, <<34991, 15203>>, <<34992, 15204>>, <<34993, 10550>>,
       <<34994, 15205>>, <<34995, 15206>>, <<34996, 15207>>, <<34997, 15208>>, <<34998, 15209>>,
       <<34999, 21418>>, <<35000, 15210>>, <<35001, 15211>>, <<35002, 15212>>, <<35003, 15213>>,
       <<35004, 21419>>, <<35005, 15214>>, <<35006, 15215>>, <<35007, 15216>>, <<35008, 15217>>,
       <<35009, 9441>>, <<35010, 12305>>, <<35011, 15218>>, <<35012, 15219>>, <<35013, 16452>>,
       <<35014, 21417>>, <<35015, 15220>>, <<35016, 15221>>, <<35017, 21420>>, <<35018, 15222>>,
       <<35019, 15223>>, <<35020, 15224>>, <<35021, 15225>>, <<35022, 21422>>, <<35023, 15226>>,
       <<35024, 15227>>, <<35025, 15228>>, <<35026, 16902>>, <<35027, 15229>>, <<35028, 15551>>,
       <<35029, 15869>>, <<35030, 15230>>, <<35031, 15231>>, <<35032, 21981>>, <<35033, 13611>>,
       <<35034, 15232>>, <<35035, 15233>>, <<35036, 15234>>, <<35037, 15235>>, <<35038, 15236>>,
       <<35039, 21982>>, <<35040, 15237>>, <<35041, 15238>>, <<35042, 21421>>, <<35043, 21423>>,
       <<35044, 11943>>, <<35045, 21424>>, <<35046, 15239>>, <<35047, 15240>>, <<35048, 21428>>,
       <<35049, 15241>>, <<35050, 15242>>, <<35051, 15243>>, <<35052, 15244>>, <<35053, 15245>>,
       <<35054, 15246>>, <<35055, 15247>>, <<35056, 21430>>, <<35057, 21425>>, <<35058, 15248>>,
       <<35059, 13825>>, <<35060, 13081>>, <<35061, 15249>>, <<35062, 15250>>, <<35063, 15251>>,
       <<35064, 12513>>, <<35065, 10828>>, <<35066, 15252>>, <<35067, 15253>>, <<35068, 21427>>,
       <<35069, 15254>>, <<35070, 21429>>, <<35071, 15255>>, <<35072, 15256>>, <<35073, 15257>>,
       <<35074, 10787>>, <<35075, 15258>>, <<35076, 15259>>, <<35077, 15260>>, <<35078, 15261>>,
       <<35079, 15262>>, <<35080, 15263>>, <<35081, 15264>>, <<35082, 21435>>, <<35083, 15265>>,
       <<35084, 15266>>, <<35085, 15267>>, <<35086, 15268>>, <<35087, 15269>>, <<35088, 10980>>,
       <<35089, 15270>>, <<35090, 9119>>, <<35091, 21433>>, <<35092, 15271>>, <<35093, 15272>>,
       <<35094, 15273>>, <<35095, 15274>>, <<35096, 15275>>, <<35097, 21432>>, <<35098, 21426>>,
       <<35099, 21434>>, <<35100, 15276>>, <<35101, 15277>>, <<35102, 15278>>, <<35103, 15279>>,
       <<35104, 15280>>, <<35105, 21431>>, <<35106, 15281>>, <<35107, 15282>>, <<35108, 15283>>,
       <<35109, 13662>>, <<35110, 15284>>, <<35111, 15285>>, <<35112, 15286>>, <<35113, 15287>>,
       <<35114, 14578>>, <<35115, 21437>>, <<35116, 15288>>, <<35117, 15289>>, <<35118, 15290>>,
       <<35119, 15291>>, <<35120, 19125>>, <<35121, 15292>>, <<35122, 15293>>, <<35123, 15294>>,
       <<35124, 21436>>, <<35125, 15295>>, <<35126, 21438>>, <<35127, 15296>>, <<35128, 15391>>,
       <<35129, 15392>>, <<35130, 15393>>, <<35131, 15394>>, <<35132, 15395>>, <<35133, 15396>>,
       <<35134, 15397>>, <<35135, 15398>>, <<35136, 15399>>, <<35137, 21439>>, <<35138, 15400>>,
       <<35139, 15401>>, <<35140, 14985>>, <<35141, 15402>>, <<35142, 15403>>, <<35143, 15404>>,
       <<35144, 15405>>, <<35145, 15406>>, <<35146, 15407>>, <<35147, 15408>>, <<35148, 15409>>,
       <<35149, 15410>>, <<35150, 15411>>, <<35151, 15412>>, <<35152, 15413>>, <<35153, 15414>>,
       <<35154, 15415>>, <<35155, 15416>>, <<35156, 15417>>, <<35157, 15418>>, <<35158, 15419>>,
       <<35159, 15420>>, <<35160, 15421>>, <<35161, 15422>>, <<35162, 15423>>, <<35163, 15424>>,
       <<35164, 15425>>, <<35165, 15426>>, <<35166, 21983>>, <<35167, 11579>>, <<35168, 15427>>,
       <<35169, 15428>>, <<35170, 15429>>, <<35171, 15430>>, <<35172, 15431>>, <<35173, 15432>>,
       <<35174, 21440>>, <<35175, 15433>>, <<35176, 15434>>, <<35177, 15435>>, <<35178, 15436>>,
       <<35179, 15437>>, <<35180, 15438>>, <<35181, 15439>>, <<35182, 15440>>, <<35183, 15441>>,
       <<35184, 15442>>, <<35185, 15443>>, <<35186, 15444>>, <<35187, 15445>>, <<35188, 15446>>,
       <<35189, 15447>>, <<35190, 15448>>, <<35191, 15449>>, <<35192, 15450>>, <<35193, 15451>>,
       <<35194, 15452>>, <<35195, 21441>>, <<35196, 15453>>, <<35197, 15454>>, <<35198, 15455>>,
       <<35199, 14813>>, <<35200, 15456>>, <<35201, 15496>>, <<35202, 15457>>, <<35203, 21467>>,
       <<35204, 15458>>, <<35205, 15459>>, <<35206, 10564>>, <<35207, 15460>>, <<35208, 15461>>,
       <<35209, 15462>>, <<35210, 15463>>, <<35211, 15464>>, <<35212, 15465>>, <<35213, 15466>>,
       <<35214, 15467>>, <<35215, 15468>>, <<35216, 15469>>, <<35217, 15470>>, <<35218, 15471>>,
       <<35219, 15472>>, <<35220, 15473>>, <<35221, 15474>>, <<35222, 15475>>, <<35223, 15476>>,
       <<35224, 15477>>, <<35225, 15478>>, <<35226, 15479>>, <<35227, 15480>>, <<35228, 15481>>,
       <<35229, 15482>>, <<35230, 15483>>, <<35231, 15484>>, <<35232, 15485>>, <<35233, 15486>>,
       <<35234, 15581>>, <<35235, 15582>>, <<35236, 15583>>, <<35237, 15584>>, <<35238, 15585>>,
       <<35239, 15586>>, <<35240, 15587>>, <<35241, 15588>>, <<35242, 15589>>, <<35243, 15590>>,
       <<35244, 15591>>, <<35245, 15592>>, <<35246, 15593>>, <<35247, 15594>>, <<35248, 15595>>,
       <<35249, 15596>>, <<35250, 15597>>, <<35251, 15598>>, <<35252, 15599>>, <<35253, 15600>>,
       <<35254, 15601>>, <<35255, 15602>>, <<35256, 15603>>, <<35257, 15604>>, <<35258, 15605>>,
       <<35259, 15606>>, <<35260, 15607>>, <<35261, 15608>>, <<35262, 15609>>, <<35263, 15610>>,
       <<35264, 15611>>, <<35265, 11397>>, <<35266, 10795>>, <<35267, 15612>>, <<35268, 10806>>,
       <<35269, 12693>>, <<35270, 14017>>, <<35271, 20118>>, <<35272, 12098>>, <<35273, 11771>>,
       <<35274, 20119>>, <<35275, 20120>>, <<35276, 20121>>, <<35277, 15613>>, <<35278, 20122>>,
       <<35279, 20123>>, <<35280, 20124>>, <<35281, 20125>>, <<35282, 11535>>, <<35283, 15614>>,
       <<35284, 15615>>, <<35285, 15616>>, <<35286, 22227>>, <<35287, 15617>>, <<35288, 15618>>,
       <<35289, 15619>>, <<35290, 22229>>, <<35291, 15620>>, <<35292, 22230>>, <<35293, 15621>>,
       <<35294, 22228>>, <<35295, 15622>>, <<35296, 15623>>, <<35297, 15624>>, <<35298, 15625>>,
       <<35299, 11562>>, <<35300, 15626>>, <<35301, 22327>>, <<35302, 9791>>, <<35303, 15627>>,
       <<35304, 15628>>, <<35305, 15629>>, <<35306, 15630>>, <<35307, 22328>>, <<35308, 15631>>,
       <<35309, 15632>>, <<35310, 15633>>, <<35311, 22329>>, <<35312, 15634>>, <<35313, 15635>>,
       <<35314, 15636>>, <<35315, 20444>>, <<35316, 15637>>, <<35317, 15638>>, <<35318, 15639>>,
       <<35319, 15640>>, <<35320, 15641>>, <<35321, 15642>>, <<35322, 15643>>, <<35323, 15644>>,
       <<35324, 15645>>, <<35325, 15646>>, <<35326, 15647>>, <<35327, 15648>>, <<35328, 15348>>,
       <<35329, 15649>>, <<35330, 15650>>, <<35331, 15651>>, <<35332, 15652>>, <<35333, 15653>>,
       <<35334, 15654>>, <<35335, 16890>>, <<35336, 15655>>, <<35337, 15656>>, <<35338, 15657>>,
       <<35339, 15658>>, <<35340, 15659>>, <<35341, 15660>>, <<35342, 15661>>, <<35343, 15662>>,
       <<35344, 15663>>, <<35345, 15664>>, <<35346, 15665>>, <<35347, 15666>>, <<35348, 15667>>,
       <<35349, 15668>>, <<35350, 15669>>, <<35351, 15670>>, <<35352, 15671>>, <<35353, 15672>>,
       <<35354, 15673>>, <<35355, 15674>>, <<35356, 15675>>, <<35357, 15676>>, <<35358, 15771>>,
       <<35359, 15772>>, <<35360, 15773>>, <<35361, 15774>>, <<35362, 15775>>, <<35363, 15776>>,
       <<35364, 15777>>, <<35365, 15778>>, <<35366, 15779>>, <<35367, 15780>>, <<35368, 15781>>,
       <<35369, 15782>>, <<35370, 15783>>, <<35371, 15784>>, <<35372, 15785>>, <<35373, 15786>>,
       <<35374, 15787>>, <<35375, 15788>>, <<35376, 15789>>, <<35377, 15790>>, <<35378, 15791>>,
       <<35379, 15792>>, <<35380, 15793>>, <<35381, 15794>>, <<35382, 15795>>, <<35383, 15796>>,
       <<35384, 15797>>, <<35385, 15798>>, <<35386, 15799>>, <<35387, 15800>>, <<35388, 15801>>,
       <<35389, 15802>>, <<35390, 22330>>, <<35391, 15803>>, <<35392, 15804>>, <<35393, 15805>>,
       <<35394, 15806>>, <<35395, 15807>>, <<35396, 15808>>, <<35397, 15809>>, <<35398, 15810>>,
       <<35399, 15811>>, <<35400, 20832>>, <<35401, 15812>>, <<35402, 15813>>, <<35403, 15814>>,
       <<35404, 15815>>, <<35405, 15816>>, <<35406, 15817>>, <<35407, 15818>>, <<35408, 15819>>,
       <<35409, 15820>>, <<35410, 15821>>, <<35411, 15822>>, <<35412, 15823>>, <<35413, 15824>>,
       <<35414, 15825>>, <<35415, 15826>>, <<35416, 15827>>, <<35417, 15828>>, <<35418, 15829>>,
       <<35419, 15830>>, <<35420, 15831>>, <<35421, 15832>>, <<35422, 15833>>, <<35423, 15834>>,
       <<35424, 15835>>, <<35425, 15836>>, <<35426, 15837>>, <<35427, 15838>>, <<35428, 15839>>,
       <<35429, 15840>>, <<35430, 15841>>, <<35431, 15842>>, <<35432, 15843>>, <<35433, 15844>>,
       <<35434, 15845>>, <<35435, 15846>>, <<35436, 15847>>, <<35437, 15848>>, <<35438, 15849>>,
       <<35439, 15850>>, <<35440, 15851>>, <<35441, 15852>>, <<35442, 15853>>, <<35443, 15854>>,
       <<35444, 15855>>, <<35445, 15856>>, <<35446, 15857>>, <<35447, 15858>>, <<35448, 15859>>,
       <<35449, 16074>>, <<35450, 15860>>, <<35451, 15861>>, <<35452, 15862>>, <<35453, 15863>>,
       <<35454, 15864>>, <<35455, 15865>>, <<35456, 15866>>, <<35457, 15961>>, <<35458, 15962>>,
       <<35459, 15963>>, <<35460, 15964>>, <<35461, 15965>>, <<35462, 15966>>, <<35463, 15967>>,
       <<35464, 15968>>, <<35465, 15770>>, <<35466, 14406>>, <<35467, 15969>>, <<35468, 15970>>,
       <<35469, 15971>>, <<35470, 15972>>, <<35471, 15973>>, <<35472, 15974>>, <<35473, 15975>>,
       <<35474, 15976>>, <<35475, 14002>>, <<35476, 15977>>, <<35477, 15978>>, <<35478, 15979>>,
       <<35479, 15980>>, <<35480, 15981>>, <<35481, 15982>>, <<35482, 15983>>, <<35483, 15984>>,
       <<35484, 15985>>, <<35485, 15986>>, <<35486, 15987>>, <<35487, 15988>>, <<35488, 15989>>,
       <<35489, 15990>>, <<35490, 15991>>, <<35491, 15992>>, <<35492, 15993>>, <<35493, 15994>>,
       <<35494, 15995>>, <<35495, 15996>>, <<35496, 15997>>, <<35497, 15998>>, <<35498, 15999>>,
       <<35499, 16000>>, <<35500, 16001>>, <<35501, 16002>>, <<35502, 16003>>, <<35503, 16004>>,
       <<35504, 16005>>, <<35505, 16006>>, <<35506, 16007>>, <<35507, 16008>>, <<35508, 16009>>,
       <<35509, 16010>>, <<35510, 16011>>, <<35511, 16012>>, <<35512, 16013>>, <<35513, 16014>>,
       <<35514, 16015>>, <<35515, 16016>>, <<35516, 16017>>, <<35517, 16018>>, <<35518, 16019>>,
       <<35519, 16020>>, <<35520, 16021>>, <<35521, 16022>>, <<35522, 16023>>, <<35523, 16024>>,
       <<35524, 16025>>, <<35525, 16026>>, <<35526, 16027>>, <<35527, 16028>>, <<35528, 16029>>,
       <<35529, 16030>>, <<35530, 16031>>, <<35531, 16032>>, <<35532, 16033>>, <<35533, 16034>>,
       <<35534, 16035>>, <<35535, 16036>>, <<35536, 16037>>, <<35537, 16038>>, <<35538, 16039>>,
       <<35539, 16040>>, <<35540, 16041>>, <<35541, 16042>>, <<35542, 16043>>, <<35543, 16044>>,
       <<35544, 16045>>, <<35545, 16046>>, <<35546, 16047>>, <<35547, 16048>>, <<35548, 16049>>,
       <<35549, 16050>>, <<35550, 16051>>, <<35551, 16052>>, <<35552, 16053>>, <<35553, 16054>>,
       <<35554, 16055>>, <<35555, 16056>>, <<35556, 16151>>, <<35557, 16152>>, <<35558, 16153>>,
       <<35559, 16154>>, <<35560, 16155>>, <<35561, 16156>>, <<35562, 16157>>, <<35563, 16158>>,
       <<35564, 16159>>, <<35565, 16160>>, <<35566, 16161>>, <<35567, 16162>>, <<35568, 16163>>,
       <<35569, 16164>>, <<35570, 16165>>, <<35571, 16166>>, <<35572, 16167>>, <<35573, 16168>>,
       <<35574, 16169>>, <<35575, 16170>>, <<35576, 16171>>, <<35577, 16172>>, <<35578, 16173>>,
       <<35579, 16174>>, <<35580, 16175>>, <<35581, 16176>>, <<35582, 16177>>, <<35583, 16178>>,
       <<35584, 16179>>, <<35585, 16180>>, <<35586, 16181>>, <<35587, 16182>>, <<35588, 16183>>,
       <<35589, 16184>>, <<35590, 16185>>, <<35591, 19128>>, <<35592, 16186>>, <<35593, 16187>>,
       <<35594, 16188>>, <<35595, 16189>>, <<35596, 16190>>, <<35597, 16191>>, <<35598, 16192>>,
       <<35599, 16193>>, <<35600, 16194>>, <<35601, 16195>>, <<35602, 16196>>, <<35603, 16197>>,
       <<35604, 16198>>, <<35605, 16199>>, <<35606, 16200>>, <<35607, 16201>>, <<35608, 16202>>,
       <<35609, 16203>>, <<35610, 16204>>, <<35611, 16205>>, <<35612, 16206>>, <<35613, 16207>>,
       <<35614, 16208>>, <<35615, 16209>>, <<35616, 16210>>, <<35617, 16211>>, <<35618, 16212>>,
       <<35619, 16213>>, <<35620, 16214>>, <<35621, 16215>>, <<35622, 22331>>, <<35623, 16216>>,
       <<35624, 16217>>, <<35625, 16218>>, <<35626, 16219>>, <<35627, 16220>>, <<35628, 16221>>,
       <<35629, 16222>>, <<35630, 16223>>, <<35631, 16224>>, <<35632, 16225>>, <<35633, 16226>>,
       <<35634, 16227>>, <<35635, 16228>>, <<35636, 16229>>, <<35637, 16230>>, <<35638, 16231>>,
       <<35639, 16232>>, <<35640, 16233>>, <<35641, 16234>>, <<35642, 16235>>, <<35643, 16236>>,
       <<35644, 16237>>, <<35645, 16238>>, <<35646, 16239>>, <<35647, 16240>>, <<35648, 16241>>,
       <<35649, 16242>>, <<35650, 16243>>, <<35651, 16244>>, <<35652, 16245>>, <<35653, 16246>>,
       <<35654, 16341>>, <<35655, 16342>>, <<35656, 16343>>, <<35657, 16344>>, <<35658, 16345>>,
       <<35659, 16346>>, <<35660, 16347>>, <<35661, 16348>>, <<35662, 16349>>, <<35663, 16350>>,
       <<35664, 16351>>, <<35665, 16352>>, <<35666, 16353>>, <<35667, 16354>>, <<35668, 16355>>,
       <<35669, 16356>>, <<35670, 16357>>, <<35671, 16358>>, <<35672, 16359>>, <<35673, 16360>>,
       <<35674, 16361>>, <<35675, 16362>>, <<35676, 16363>>, <<35677, 16364>>, <<35678, 16365>>,
       <<35679, 16366>>, <<35680, 16367>>, <<35681, 16368>>, <<35682, 16369>>, <<35683, 16370>>,
       <<35684, 16371>>, <<35685, 16372>>, <<35686, 11701>>, <<35687, 16373>>, <<35688, 16374>>,
       <<35689, 16375>>, <<35690, 16376>>, <<35691, 16377>>, <<35692, 13215>>, <<35693, 16378>>,
       <<35694, 16379>>, <<35695, 16380>>, <<35696, 16381>>, <<35697, 16382>>, <<35698, 16383>>,
       <<35699, 16384>>, <<35700, 16385>>, <<35701, 16386>>, <<35702, 16387>>, <<35703, 16388>>,
       <<35704, 16389>>, <<35705, 16390>>, <<35706, 16391>>, <<35707, 16392>>, <<35708, 16393>>,
       <<35709, 16394>>, <<35710, 16395>>, <<35711, 16396>>, <<35712, 16397>>, <<35713, 16398>>,
       <<35714, 16399>>, <<35715, 16400>>, <<35716, 16401>>, <<35717, 16402>>, <<35718, 16403>>,
       <<35719, 16404>>, <<35720, 16405>>, <<35721, 16406>>, <<35722, 16407>>, <<35723, 16408>>,
       <<35724, 16409>>, <<35725, 16410>>, <<35726, 16411>>, <<35727, 16412>>, <<35728, 16413>>,
       <<35729, 16414>>, <<35730, 16415>>, <<35731, 16416>>, <<35732, 16417>>, <<35733, 16418>>,
       <<35734, 16419>>, <<35735, 16420>>, <<35736, 16421>>, <<35737, 16422>>, <<35738, 16423>>,
       <<35739, 16424>>, <<35740, 16425>>, <<35741, 16426>>, <<35742, 16427>>, <<35743, 16428>>,
       <<35744, 17011>>, <<35745, 11344>>, <<35746, 10175>>, <<35747, 10574>>, <<35748, 13633>>,
       <<35749, 11311>>, <<35750, 17012>>, <<35751, 17013>>, <<35752, 14400>>, <<35753, 13621>>,
       <<35754, 17014>>, <<35755, 13299>>, <<35756, 16429>>, <<35757, 15317>>, <<35758, 15559>>,
       <<35759, 15318>>, <<35760, 11345>>, <<35761, 16430>>, <<35762, 11514>>, <<35763, 11184>>,
       <<35764, 17015>>, <<35765, 17016>>, <<35766, 15336>>, <<35767, 17017>>, <<35768, 15183>>,
       <<35769, 10245>>, <<35770, 12505>>, <<35771, 16431>>, <<35772, 14203>>, <<35773, 10433>>,
       <<35774, 13848>>, <<35775, 10391>>, <<35776, 11773>>, <<35777, 16250>>, <<35778, 17018>>,
       <<35779, 17019>>, <<35780, 13238>>, <<35781, 16507>>, <<35782, 13988>>, <<35783, 16432>>,
       <<35784, 16065>>, <<35785, 14219>>, <<35786, 16135>>, <<35787, 17020>>, <<35788, 16309>>,
       <<35789, 9828>>, <<35790, 17022>>, <<35791, 17021>>, <<35792, 16433>>, <<35793, 15561>>,
       <<35794, 17023>>, <<35795, 17024>>, <<35796, 17025>>, <<35797, 14018>>, <<35798, 17026>>,
       <<35799, 13977>>, <<35800, 17027>>, <<35801, 17028>>, <<35802, 9643>>, <<35803, 16325>>,
       <<35804, 17029>>, <<35805, 11132>>, <<35806, 9990>>, <<35807, 17030>>, <<35808, 17031>>,
       <<35809, 10814>>, <<35810, 15311>>, <<35811, 15558>>, <<35812, 17032>>, <<35813, 10581>>,
       <<35814, 14990>>, <<35815, 9485>>, <<35816, 17033>>, <<35817, 17034>>, <<35818, 16434>>,
       <<35819, 11571>>, <<35820, 14786>>, <<35821, 15755>>, <<35822, 17035>>, <<35823, 14809>>,
       <<35824, 17036>>, <<35825, 15729>>, <<35826, 11185>>, <<35827, 17037>>, <<35828, 14177>>,
       <<35829, 14204>>, <<35830, 17038>>, <<35831, 13471>>, <<35832, 16324>>, <<35833, 17039>>,
       <<35834, 13037>>, <<35835, 10199>>, <<35836, 17040>>, <<35837, 10400>>, <<35838, 11922>>,
       <<35839, 17041>>, <<35840, 17042>>, <<35841, 14169>>, <<35842, 17043>>, <<35843, 10063>>,
       <<35844, 17044>>, <<35845, 12290>>, <<35846, 16463>>, <<35847, 17045>>, <<35848, 14370>>,
       <<35849, 16435>>, <<35850, 15560>>, <<35851, 12843>>, <<35852, 17046>>, <<35853, 10069>>,
       <<35854, 11165>>, <<35855, 17047>>, <<35856, 15125>>, <<35857, 17048>>, <<35858, 17049>>,
       <<35859, 14755>>, <<35860, 17050>>, <<35861, 17051>>, <<35862, 17052>>, <<35863, 9493>>,
       <<35864, 17055>>, <<35865, 17053>>, <<35866, 15368>>, <<35867, 17054>>, <<35868, 12689>>,
       <<35869, 17056>>, <<35870, 16436>>, <<35871, 17057>>, <<35872, 17058>>, <<35873, 17059>>,
       <<35874, 15133>>, <<35875, 15491>>, <<35876, 9115>>, <<35877, 17060>>, <<35878, 13407>>,
       <<35879, 17061>>, <<35880, 11583>>, <<35881, 12637>>, <<35882, 17062>>, <<35883, 17063>>,
       <<35884, 12729>>, <<35885, 14369>>, <<35886, 17064>>, <<35887, 17065>>, <<35888, 12096>>,
       <<35889, 13261>>, <<35890, 17066>>, <<35891, 17067>>, <<35892, 13416>>, <<35893, 17068>>,
       <<35894, 17069>>, <<35895, 10776>>, <<35896, 16531>>, <<35897, 16532>>, <<35898, 16533>>,
       <<35899, 16534>>, <<35900, 16535>>, <<35901, 16536>>, <<35902, 16537>>, <<35903, 16538>>,
       <<35904, 16539>>, <<35905, 11193>>, <<35906, 16540>>, <<35907, 16541>>, <<35908, 16542>>,
       <<35909, 16543>>, <<35910, 10191>>, <<35911, 22034>>, <<35912, 16544>>, <<35913, 22035>>,
       <<35914, 16545>>, <<35915, 16546>>, <<35916, 14603>>, <<35917, 16547>>, <<35918, 16548>>,
       <<35919, 16549>>, <<35920, 16550>>, <<35921, 16551>>, <<35922, 16552>>, <<35923, 16553>>,
       <<35924, 16554>>, <<35925, 22161>>, <<35926, 16555>>, <<35927, 16556>>, <<35928, 16557>>,
       <<35929, 16558>>, <<35930, 20300>>, <<35931, 16559>>, <<35932, 16560>>, <<35933, 16561>>,
       <<35934, 16562>>, <<35935, 16563>>, <<35936, 16564>>, <<35937, 14999>>, <<35938, 11147>>,
       <<35939, 16565>>, <<35940, 16566>>, <<35941, 16567>>, <<35942, 16568>>, <<35943, 16569>>,
       <<35944, 16570>>, <<35945, 16571>>, <<35946, 10958>>, <<35947, 15871>>, <<35948, 16572>>,
       <<35949, 16573>>, <<35950, 16574>>, <<35951, 16575>>, <<35952, 16576>>, <<35953, 16577>>,
       <<35954, 16578>>, <<35955, 18393>>, <<35956, 16579>>, <<35957, 16580>>, <<35958, 16581>>,
       <<35959, 16582>>, <<35960, 22220>>, <<35961, 9226>>, <<35962, 9488>>, <<35963, 16583>>,
       <<35964, 16584>>, <<35965, 16585>>, <<35966, 16586>>, <<35967, 16587>>, <<35968, 16588>>,
       <<35969, 16589>>, <<35970, 22221>>, <<35971, 16590>>, <<35972, 16591>>, <<35973, 22223>>,
       <<35974, 16592>>, <<35975, 16593>>, <<35976, 16594>>, <<35977, 10975>>, <<35978, 22222>>,
       <<35979, 16595>>, <<35980, 12654>>, <<35981, 16596>>, <<35982, 16597>>, <<35983, 16598>>,
       <<35984, 16599>>, <<35985, 16600>>, <<35986, 16601>>, <<35987, 16602>>, <<35988, 22225>>,
       <<35989, 16603>>, <<35990, 16604>>, <<35991, 16605>>, <<35992, 22224>>, <<35993, 16606>>,
       <<35994, 16607>>, <<35995, 16608>>, <<35996, 16609>>, <<35997, 16610>>, <<35998, 16611>>,
       <<35999, 16612>>, <<36000, 16613>>, <<36001, 16614>>, <<36002, 16615>>, <<36003, 16616>>,
       <<36004, 16617>>, <<36005, 16618>>, <<36006, 16619>>, <<36007, 16620>>, <<36008, 16621>>,
       <<36009, 16622>>, <<36010, 16623>>, <<36011, 16624>>, <<36012, 16625>>, <<36013, 16626>>,
       <<36014, 16721>>, <<36015, 16722>>, <<36016, 16723>>, <<36017, 16724>>, <<36018, 16725>>,
       <<36019, 16726>>, <<36020, 16727>>, <<36021, 16728>>, <<36022, 16729>>, <<36023, 16730>>,
       <<36024, 16731>>, <<36025, 16732>>, <<36026, 16733>>, <<36027, 16734>>, <<36028, 16735>>,
       <<36029, 16736>>, <<36030, 16737>>, <<36031, 16738>>, <<36032, 16739>>, <<36033, 16740>>,
       <<36034, 16741>>, <<36035, 16742>>, <<36036, 16743>>, <<36037, 16744>>, <<36038, 16745>>,
       <<36039, 16746>>, <<36040, 16747>>, <<36041, 16748>>, <<36042, 16749>>, <<36043, 16750>>,
       <<36044, 16751>>, <<36045, 16752>>, <<36046, 16753>>, <<36047, 16754>>, <<36048, 16755>>,
       <<36049, 16756>>, <<36050, 16757>>, <<36051, 16758>>, <<36052, 16759>>, <<36053, 16760>>,
       <<36054, 16761>>, <<36055, 16762>>, <<36056, 16763>>, <<36057, 16764>>, <<36058, 16765>>,
       <<36059, 16766>>, <<36060, 16767>>, <<36061, 16768>>, <<36062, 16769>>, <<36063, 16770>>,
       <<36064, 16771>>, <<36065, 16772>>, <<36066, 16773>>, <<36067, 16774>>, <<36068, 16775>>,
       <<36069, 16776>>, <<36070, 16777>>, <<36071, 16778>>, <<36072, 16779>>, <<36073, 16780>>,
       <<36074, 16781>>, <<36075, 16782>>, <<36076, 16783>>, <<36077, 16784>>, <<36078, 16785>>,
       <<36079, 16786>>, <<36080, 16787>>, <<36081, 16788>>, <<36082, 16789>>, <<36083, 16790>>,
       <<36084, 16791>>, <<36085, 16792>>, <<36086, 16793>>, <<36087, 16794>>, <<36088, 16795>>,
       <<36089, 16796>>, <<36090, 16797>>, <<36091, 16798>>, <<36092, 16799>>, <<36093, 16800>>,
       <<36094, 16801>>, <<36095, 16802>>, <<36096, 16803>>, <<36097, 16804>>, <<36098, 16805>>,
       <<36099, 16806>>, <<36100, 16807>>, <<36101, 16808>>, <<36102, 16809>>, <<36103, 16810>>,
       <<36104, 16811>>, <<36105, 16812>>, <<36106, 16813>>, <<36107, 16814>>, <<36108, 16815>>,
       <<36109, 16816>>, <<36110, 16911>>, <<36111, 16912>>, <<36112, 16913>>, <<36113, 16914>>,
       <<36114, 16915>>, <<36115, 16916>>, <<36116, 16917>>, <<36117, 16918>>, <<36118, 16919>>,
       <<36119, 16920>>, <<36120, 16921>>, <<36121, 16922>>, <<36122, 16923>>, <<36123, 16924>>,
       <<36124, 16925>>, <<36125, 9236>>, <<36126, 16130>>, <<36127, 10572>>, <<36128, 16926>>,
       <<36129, 10753>>, <<36130, 9444>>, <<36131, 15946>>, <<36132, 14961>>, <<36133, 9086>>,
       <<36134, 16099>>, <<36135, 11201>>, <<36136, 16288>>, <<36137, 10379>>, <<36138, 14362>>,
       <<36139, 13228>>, <<36140, 9281>>, <<36141, 10762>>, <<36142, 16338>>, <<36143, 10801>>,
       <<36144, 10357>>, <<36145, 11396>>, <<36146, 20104>>, <<36147, 20105>>, <<36148, 14435>>,
       <<36149, 10819>>, <<36150, 20106>>, <<36151, 9877>>, <<36152, 12655>>, <<36153, 10405>>,
       <<36154, 10982>>, <<36155, 20107>>, <<36156, 15950>>, <<36157, 20108>>, <<36158, 11360>>,
       <<36159, 11179>>, <<36160, 20109>>, <<36161, 12318>>, <<36162, 12470>>, <<36163, 15929>>,
       <<36164, 16478>>, <<36165, 20110>>, <<36166, 20111>>, <<36167, 20114>>, <<36168, 20112>>,
       <<36169, 20113>>, <<36170, 13838>>, <<36171, 10565>>, <<36172, 10202>>, <<36173, 20115>>,
       <<36174, 14040>>, <<36175, 13821>>, <<36176, 9831>>, <<36177, 16927>>, <<36178, 16928>>,
       <<36179, 18583>>, <<36180, 13082>>, <<36181, 20116>>, <<36182, 12087>>, <<36183, 16929>>,
       <<36184, 16460>>, <<36185, 20117>>, <<36186, 16448>>, <<36187, 13678>>, <<36188, 16677>>,
       <<36189, 16671>>, <<36190, 15928>>, <<36191, 16930>>, <<36192, 15955>>, <<36193, 13812>>,
       <<36194, 15690>>, <<36195, 10597>>, <<36196, 9660>>, <<36197, 16931>>, <<36198, 13842>>,
       <<36199, 22032>>, <<36200, 16932>>, <<36201, 16933>>, <<36202, 16934>>, <<36203, 10979>>,
       <<36204, 16935>>, <<36205, 22033>>, <<36206, 16936>>, <<36207, 16937>>, <<36208, 16499>>,
       <<36209, 16938>>, <<36210, 16939>>, <<36211, 22027>>, <<36212, 10562>>, <<36213, 16108>>,
       <<36214, 10593>>, <<36215, 13286>>, <<36216, 16940>>, <<36217, 16941>>, <<36218, 16942>>,
       <<36219, 16943>>, <<36220, 16944>>, <<36221, 16945>>, <<36222, 16946>>, <<36223, 16947>>,
       <<36224, 16948>>, <<36225, 9631>>, <<36226, 16949>>, <<36227, 16950>>, <<36228, 22028>>,
       <<36229, 9608>>, <<36230, 16951>>, <<36231, 16952>>, <<36232, 16953>>, <<36233, 16954>>,
       <<36234, 15895>>, <<36235, 13483>>, <<36236, 16955>>, <<36237, 16956>>, <<36238, 16957>>,
       <<36239, 16958>>, <<36240, 16959>>, <<36241, 22030>>, <<36242, 16960>>, <<36243, 16961>>,
       <<36244, 22029>>, <<36245, 16962>>, <<36246, 16963>>, <<36247, 16964>>, <<36248, 16965>>,
       <<36249, 16966>>, <<36250, 16967>>, <<36251, 16968>>, <<36252, 16969>>, <<36253, 16970>>,
       <<36254, 16971>>, <<36255, 14389>>, <<36256, 16972>>, <<36257, 16973>>, <<36258, 16974>>,
       <<36259, 13590>>, <<36260, 16975>>, <<36261, 16976>>, <<36262, 16977>>, <<36263, 16978>>,
       <<36264, 16979>>, <<36265, 16980>>, <<36266, 16981>>, <<36267, 16982>>, <<36268, 16983>>,
       <<36269, 16984>>, <<36270, 16985>>, <<36271, 16986>>, <<36272, 16987>>, <<36273, 22031>>,
       <<36274, 16988>>, <<36275, 16503>>, <<36276, 13047>>, <<36277, 22168>>, <<36278, 16989>>,
       <<36279, 16990>>, <<36280, 22163>>, <<36281, 16991>>, <<36282, 22171>>, <<36283, 16992>>,
       <<36284, 22170>>, <<36285, 16993>>, <<36286, 16272>>, <<36287, 22169>>, <<36288, 16994>>,
       <<36289, 16995>>, <<36290, 16996>>, <<36291, 15896>>, <<36292, 22172>>, <<36293, 16997>>,
       <<36294, 22180>>, <<36295, 16998>>, <<36296, 16999>>, <<36297, 17000>>, <<36298, 17001>>,
       <<36299, 9073>>, <<36300, 10064>>, <<36301, 17002>>, <<36302, 22177>>, <<36303, 22178>>,
       <<36304, 17003>>, <<36305, 13076>>, <<36306, 17004>>, <<36307, 17005>>, <<36308, 17006>>,
       <<36309, 17101>>, <<36310, 22173>>, <<36311, 22174>>, <<36312, 17102>>, <<36313, 17103>>,
       <<36314, 22175>>, <<36315, 22179>>, <<36316, 17104>>, <<36317, 11750>>, <<36318, 22176>>,
       <<36319, 10636>>, <<36320, 17105>>, <<36321, 17106>>, <<36322, 17107>>, <<36323, 22184>>,
       <<36324, 22187>>, <<36325, 17108>>, <<36326, 17109>>, <<36327, 17110>>, <<36328, 11947>>,
       <<36329, 17111>>, <<36330, 10818>>, <<36331, 22164>>, <<36332, 22181>>, <<36333, 17112>>,
       <<36334, 17113>>, <<36335, 12469>>, <<36336, 17114>>, <<36337, 17115>>, <<36338, 17116>>,
       <<36339, 14434>>, <<36340, 17117>>, <<36341, 11395>>, <<36342, 17118>>, <<36343, 22182>>,
       <<36344, 22183>>, <<36345, 22185>>, <<36346, 10235>>, <<36347, 22186>>, <<36348, 17119>>,
       <<36349, 22189>>, <<36350, 17120>>, <<36351, 17121>>, <<36352, 17122>>, <<36353, 17123>>,
       <<36354, 17124>>, <<36355, 17125>>, <<36356, 17126>>, <<36357, 22165>>, <<36358, 17127>>,
       <<36359, 17128>>, <<36360, 17129>>, <<36361, 22188>>, <<36362, 15703>>, <<36363, 17130>>,
       <<36364, 9672>>, <<36365, 17131>>, <<36366, 17132>>, <<36367, 14350>>, <<36368, 17133>>,
       <<36369, 17134>>, <<36370, 17135>>, <<36371, 17136>>, <<36372, 22190>>, <<36373, 17137>>,
       <<36374, 17138>>, <<36375, 17139>>, <<36376, 17140>>, <<36377, 17141>>, <<36378, 17142>>,
       <<36379, 17143>>, <<36380, 17144>>, <<36381, 22191>>, <<36382, 11751>>, <<36383, 22192>>,
       <<36384, 17145>>, <<36385, 17146>>, <<36386, 14409>>, <<36387, 22195>>, <<36388, 17147>>,
       <<36389, 17148>>, <<36390, 17149>>, <<36391, 17150>>, <<36392, 17151>>, <<36393, 9446>>,
       <<36394, 16493>>, <<36395, 17152>>, <<36396, 22193>>, <<36397, 17153>>, <<36398, 22194>>,
       <<36399, 22196>>, <<36400, 17154>>, <<36401, 22202>>, <<36402, 17155>>, <<36403, 17156>>,
       <<36404, 17157>>, <<36405, 22200>>, <<36406, 17158>>, <<36407, 17159>>, <<36408, 17160>>,
       <<36409, 22199>>, <<36410, 22197>>, <<36411, 17161>>, <<36412, 17162>>, <<36413, 22201>>,
       <<36414, 17163>>, <<36415, 17164>>, <<36416, 22198>>, <<36417, 22204>>, <<36418, 22205>>,
       <<36419, 17165>>, <<36420, 14413>>, <<36421, 17166>>, <<36422, 17167>>, <<36423, 19127>>,
       <<36424, 10000>>, <<36425, 22203>>, <<36426, 22208>>, <<36427, 14349>>, <<36428, 17168>>,
       <<36429, 17169>>, <<36430, 17170>>, <<36431, 17171>>, <<36432, 17172>>, <<36433, 22206>>,
       <<36434, 22207>>, <<36435, 17173>>, <<36436, 17174>>, <<36437, 17175>>, <<36438, 17176>>,
       <<36439, 17177>>, <<36440, 17178>>, <<36441, 22166>>, <<36442, 17179>>, <<36443, 17180>>,
       <<36444, 17181>>, <<36445, 17182>>, <<36446, 17183>>, <<36447, 17184>>, <<36448, 17185>>,
       <<36449, 17186>>, <<36450, 17187>>, <<36451, 17188>>, <<36452, 17189>>, <<36453, 17190>>,
       <<36454, 9252>>, <<36455, 17191>>, <<36456, 17192>>, <<36457, 22167>>, <<36458, 17193>>,
       <<36459, 17194>>, <<36460, 10013>>, <<36461, 9474>>, <<36462, 17195>>, <<36463, 22212>>,
       <<36464, 22209>>, <<36465, 17196>>, <<36466, 10221>>, <<36467, 17291>>, <<36468, 22213>>,
       <<36469, 17292>>, <<36470, 22210>>, <<36471, 17293>>, <<36472, 17294>>, <<36473, 17295>>,
       <<36474, 17296>>, <<36475, 17297>>, <<36476, 22211>>, <<36477, 17298>>, <<36478, 17299>>,
       <<36479, 9844>>, <<36480, 17300>>, <<36481, 15940>>, <<36482, 17301>>, <<36483, 17302>>,
       <<36484, 17303>>, <<36485, 22214>>, <<36486, 17304>>, <<36487, 9685>>, <<36488, 17305>>,
       <<36489, 17306>>, <<36490, 17307>>, <<36491, 17308>>, <<36492, 17309>>, <<36493, 17310>>,
       <<36494, 17311>>, <<36495, 22215>>, <<36496, 22217>>, <<36497, 17312>>, <<36498, 17313>>,
       <<36499, 17314>>, <<36500, 22216>>, <<36501, 17315>>, <<36502, 17316>>, <<36503, 17317>>,
       <<36504, 17318>>, <<36505, 17319>>, <<36506, 17320>>, <<36507, 17321>>, <<36508, 22218>>,
       <<36509, 17322>>, <<36510, 22219>>, <<36511, 17323>>, <<36512, 17324>>, <<36513, 17325>>,
       <<36514, 17326>>, <<36515, 17327>>, <<36516, 17328>>, <<36517, 17329>>, <<36518, 17330>>,
       <<36519, 17331>>, <<36520, 17332>>, <<36521, 17333>>, <<36522, 17334>>, <<36523, 13853>>,
       <<36524, 10746>>, <<36525, 17335>>, <<36526, 17336>>, <<36527, 13487>>, <<36528, 17337>>,
       <<36529, 17338>>, <<36530, 10233>>, <<36531, 17339>>, <<36532, 17340>>, <<36533, 17341>>,
       <<36534, 17342>>, <<36535, 17343>>, <<36536, 17344>>, <<36537, 17345>>, <<36538, 14387>>,
       <<36539, 17346>>, <<36540, 17347>>, <<36541, 17348>>, <<36542, 17349>>, <<36543, 17350>>,
       <<36544, 17351>>, <<36545, 17352>>, <<36546, 17353>>, <<36547, 17354>>, <<36548, 17355>>,
       <<36549, 17356>>, <<36550, 17357>>, <<36551, 17358>>, <<36552, 17359>>, <<36553, 17360>>,
       <<36554, 17361>>, <<36555, 17362>>, <<36556, 17363>>, <<36557, 17364>>, <<36558, 20052>>,
       <<36559, 17365>>, <<36560, 17366>>, <<36561, 17367>>, <<36562, 17368>>, <<36563, 17369>>,
       <<36564, 17370>>, <<36565, 17371>>, <<36566, 17372>>, <<36567, 17373>>, <<36568, 17374>>,
       <<36569, 17375>>, <<36570, 17376>>, <<36571, 17377>>, <<36572, 17378>>, <<36573, 17379>>,
       <<36574, 17380>>, <<36575, 17381>>, <<36576, 17382>>, <<36577, 17383>>, <<36578, 17384>>,
       <<36579, 17385>>, <<36580, 17386>>, <<36581, 17481>>, <<36582, 17482>>, <<36583, 17483>>,
       <<36584, 17484>>, <<36585, 17485>>, <<36586, 17486>>, <<36587, 17487>>, <<36588, 17488>>,
       <<36589, 17489>>, <<36590, 17490>>, <<36591, 17491>>, <<36592, 17492>>, <<36593, 17493>>,
       <<36594, 17494>>, <<36595, 17495>>, <<36596, 17496>>, <<36597, 17497>>, <<36598, 17498>>,
       <<36599, 17499>>, <<36600, 17500>>, <<36601, 17501>>, <<36602, 17502>>, <<36603, 17503>>,
       <<36604, 17504>>, <<36605, 17505>>, <<36606, 17506>>, <<36607, 17507>>, <<36608, 17508>>,
       <<36609, 17509>>, <<36610, 17510>>, <<36611, 17511>>, <<36612, 17512>>, <<36613, 17513>>,
       <<36614, 17514>>, <<36615, 17515>>, <<36616, 17516>>, <<36617, 17517>>, <<36618, 17518>>,
       <<36619, 17519>>, <<36620, 17520>>, <<36621, 17521>>, <<36622, 17522>>, <<36623, 17523>>,
       <<36624, 17524>>, <<36625, 17525>>, <<36626, 17526>>, <<36627, 17527>>, <<36628, 17528>>,
       <<36629, 17529>>, <<36630, 17530>>, <<36631, 17531>>, <<36632, 17532>>, <<36633, 17533>>,
       <<36634, 17534>>, <<36635, 17535>>, <<36636, 17536>>, <<36637, 17537>>, <<36638, 17538>>,
       <<36639, 17539>>, <<36640, 17540>>, <<36641, 17541>>, <<36642, 17542>>, <<36643, 17543>>,
       <<36644, 17544>>, <<36645, 17545>>, <<36646, 17546>>, <<36647, 17547>>, <<36648, 17548>>,
       <<36649, 17549>>, <<36650, 17550>>, <<36651, 17551>>, <<36652, 17552>>, <<36653, 17553>>,
       <<36654, 17554>>, <<36655, 17555>>, <<36656, 17556>>, <<36657, 17557>>, <<36658, 17558>>,
       <<36659, 17559>>, <<36660, 17560>>, <<36661, 17561>>, <<36662, 17562>>, <<36663, 17563>>,
       <<36664, 17564>>, <<36665, 17565>>, <<36666, 17566>>, <<36667, 17567>>, <<36668, 17568>>,
       <<36669, 17569>>, <<36670, 17570>>, <<36671, 17571>>, <<36672, 17572>>, <<36673, 17573>>,
       <<36674, 17574>>, <<36675, 17575>>, <<36676, 17576>>, <<36677, 17671>>, <<36678, 17672>>,
       <<36679, 17673>>, <<36680, 17674>>, <<36681, 17675>>, <<36682, 17676>>, <<36683, 17677>>,
       <<36684, 17678>>, <<36685, 17679>>, <<36686, 17680>>, <<36687, 17681>>, <<36688, 17682>>,
       <<36689, 17683>>, <<36690, 17684>>, <<36691, 17685>>, <<36692, 17686>>, <<36693, 17687>>,
       <<36694, 17688>>, <<36695, 17689>>, <<36696, 17690>>, <<36697, 17691>>, <<36698, 17692>>,
       <<36699, 17693>>, <<36700, 17694>>, <<36701, 17695>>, <<36702, 17696>>, <<36703, 17697>>,
       <<36704, 17698>>, <<36705, 17699>>, <<36706, 17700>>, <<36707, 17701>>, <<36708, 17702>>,
       <<36709, 17703>>, <<36710, 9617>>, <<36711, 15960>>, <<36712, 10812>>, <<36713, 15195>>,
       <<36714, 17704>>, <<36715, 19933>>, <<36716, 16446>>, <<36717, 19934>>, <<36718, 12500>>,
       <<36719, 13663>>, <<36720, 10994>>, <<36721, 19935>>, <<36722, 19936>>, <<36723, 19937>>,
       <<36724, 16311>>, <<36725, 19938>>, <<36726, 19939>>, <<36727, 19941>>, <<36728, 19940>>,
       <<36729, 19942>>, <<36730, 19943>>, <<36731, 13461>>, <<36732, 19944>>, <<36733, 15922>>,
       <<36734, 19945>>, <<36735, 11542>>, <<36736, 17705>>, <<36737, 19946>>, <<36738, 19947>>,
       <<36739, 11543>>, <<36740, 19948>>, <<36741, 10554>>, <<36742, 12286>>, <<36743, 19949>>,
       <<36744, 9234>>, <<36745, 11168>>, <<36746, 10821>>, <<36747, 19950>>, <<36748, 17706>>,
       <<36749, 20047>>, <<36750, 20048>>, <<36751, 20049>>, <<36752, 10444>>, <<36753, 11319>>,
       <<36754, 17707>>, <<36755, 14034>>, <<36756, 18192>>, <<36757, 15881>>, <<36758, 14945>>,
       <<36759, 16079>>, <<36760, 20050>>, <<36761, 16118>>, <<36762, 20051>>, <<36763, 15139>>,
       <<36764, 10764>>, <<36765, 17708>>, <<36766, 9825>>, <<36767, 9273>>, <<36768, 17709>>,
       <<36769, 17710>>, <<36770, 17711>>, <<36771, 12083>>, <<36772, 17712>>, <<36773, 17713>>,
       <<36774, 17714>>, <<36775, 17715>>, <<36776, 9286>>, <<36777, 9287>>, <<36778, 17716>>,
       <<36779, 9288>>, <<36780, 17717>>, <<36781, 17718>>, <<36782, 17719>>, <<36783, 17720>>,
       <<36784, 9625>>, <<36785, 13658>>, <<36786, 17721>>, <<36787, 17722>>, <<36788, 17723>>,
       <<36789, 17724>>, <<36790, 19129>>, <<36791, 17725>>, <<36792, 17726>>, <<36793, 9279>>,
       <<36794, 17727>>, <<36795, 17728>>, <<36796, 17729>>, <<36797, 12297>>, <<36798, 9865>>,
       <<36799, 17730>>, <<36800, 17731>>, <<36801, 13404>>, <<36802, 15732>>, <<36803, 17732>>,
       <<36804, 13295>>, <<36805, 15320>>, <<36806, 17733>>, <<36807, 10829>>, <<36808, 12531>>,
       <<36809, 17734>>, <<36810, 17735>>, <<36811, 17736>>, <<36812, 17737>>, <<36813, 17738>>,
       <<36814, 15689>>, <<36815, 17739>>, <<36816, 15909>>, <<36817, 11588>>, <<36818, 17740>>,
       <<36819, 19130>>, <<36820, 10377>>, <<36821, 19131>>, <<36822, 17741>>, <<36823, 17742>>,
       <<36824, 11141>>, <<36825, 16122>>, <<36826, 17743>>, <<36827, 11584>>, <<36828, 15888>>,
       <<36829, 14731>>, <<36830, 12268>>, <<36831, 9653>>, <<36832, 17744>>, <<36833, 17745>>,
       <<36834, 14432>>, <<36835, 17746>>, <<36836, 19134>>, <<36837, 19132>>, <<36838, 19136>>,
       <<36839, 17747>>, <<36840, 19138>>, <<36841, 19135>>, <<36842, 10023>>, <<36843, 13246>>,
       <<36844, 17748>>, <<36845, 10068>>, <<36846, 19133>>, <<36847, 17749>>, <<36848, 14052>>,
       <<36849, 17750>>, <<36850, 17751>>, <<36851, 19137>>, <<36852, 17752>>, <<36853, 17753>>,
       <<36854, 17754>>, <<36855, 12688>>, <<36856, 9253>>, <<36857, 11309>>, <<36858, 17755>>,
       <<36859, 17756>>, <<36860, 17757>>, <<36861, 16459>>, <<36862, 17758>>, <<36863, 17759>>,
       <<36864, 14579>>, <<36865, 14201>>, <<36866, 14008>>, <<36867, 14397>>, <<36868, 19140>>,
       <<36869, 19139>>, <<36870, 12896>>, <<36871, 17760>>, <<36872, 17761>>, <<36873, 15297>>,
       <<36874, 15319>>, <<36875, 19141>>, <<36876, 17762>>, <<36877, 19144>>, <<36878, 17763>>,
       <<36879, 14560>>, <<36880, 16326>>, <<36881, 19143>>, <<36882, 10037>>, <<36883, 17764>>,
       <<36884, 14566>>, <<36885, 17765>>, <<36886, 19145>>, <<36887, 10192>>, <<36888, 17766>>,
       <<36889, 17861>>, <<36890, 14544>>, <<36891, 10804>>, <<36892, 17862>>, <<36893, 14003>>,
       <<36894, 9645>>, <<36895, 14213>>, <<36896, 15942>>, <<36897, 19146>>, <<36898, 10430>>,
       <<36899, 17863>>, <<36900, 17864>>, <<36901, 17865>>, <<36902, 19142>>, <<36903, 17866>>,
       <<36904, 17867>>, <<36905, 17868>>, <<36906, 17869>>, <<36907, 17870>>, <<36908, 17871>>,
       <<36909, 19149>>, <<36910, 9880>>, <<36911, 19150>>, <<36912, 17872>>, <<36913, 17873>>,
       <<36914, 17874>>, <<36915, 17875>>, <<36916, 17876>>, <<36917, 19147>>, <<36918, 19148>>,
       <<36919, 17877>>, <<36920, 15547>>, <<36921, 17878>>, <<36922, 17879>>, <<36923, 12509>>,
       <<36924, 9254>>, <<36925, 17880>>, <<36926, 15742>>, <<36927, 17881>>, <<36928, 17882>>,
       <<36929, 10227>>, <<36930, 14232>>, <<36931, 17883>>, <<36932, 19151>>, <<36933, 17884>>,
       <<36934, 17885>>, <<36935, 15762>>, <<36936, 17886>>, <<36937, 17887>>, <<36938, 17888>>,
       <<36939, 17889>>, <<36940, 17890>>, <<36941, 9289>>, <<36942, 17891>>, <<36943, 10250>>,
       <<36944, 19154>>, <<36945, 19152>>, <<36946, 19153>>, <<36947, 10008>>, <<36948, 17892>>,
       <<36949, 17893>>, <<36950, 17894>>, <<36951, 15523>>, <<36952, 19156>>, <<36953, 17895>>,
       <<36954, 17896>>, <<36955, 19158>>, <<36956, 17897>>, <<36957, 17898>>, <<36958, 17899>>,
       <<36959, 17900>>, <<36960, 17901>>, <<36961, 17902>>, <<36962, 19157>>, <<36963, 13414>>,
       <<36964, 17903>>, <<36965, 15489>>, <<36966, 17904>>, <<36967, 17905>>, <<36968, 19155>>,
       <<36969, 17906>>, <<36970, 17907>>, <<36971, 17908>>, <<36972, 17909>>, <<36973, 15932>>,
       <<36974, 16114>>, <<36975, 17910>>, <<36976, 17911>>, <<36977, 17912>>, <<36978, 17913>>,
       <<36979, 17914>>, <<36980, 19160>>, <<36981, 16517>>, <<36982, 17915>>, <<36983, 17916>>,
       <<36984, 17917>>, <<36985, 17918>>, <<36986, 17919>>, <<36987, 17920>>, <<36988, 17921>>,
       <<36989, 19161>>, <<36990, 17922>>, <<36991, 9276>>, <<36992, 15387>>, <<36993, 17923>>,
       <<36994, 19162>>, <<36995, 19164>>, <<36996, 17924>>, <<36997, 17925>>, <<36998, 17926>>,
       <<36999, 17927>>, <<37000, 19163>>, <<37001, 17928>>, <<37002, 17929>>, <<37003, 19165>>,
       <<37004, 17930>>, <<37005, 17931>>, <<37006, 17932>>, <<37007, 17933>>, <<37008, 17934>>,
       <<37009, 15542>>, <<37010, 17935>>, <<37011, 10019>>, <<37012, 17936>>, <<37013, 19539>>,
       <<37014, 17937>>, <<37015, 17091>>, <<37016, 17938>>, <<37017, 17094>>, <<37018, 17939>>,
       <<37019, 17092>>, <<37020, 17940>>, <<37021, 17093>>, <<37022, 17941>>, <<37023, 17942>>,
       <<37024, 17943>>, <<37025, 17096>>, <<37026, 15153>>, <<37027, 12865>>, <<37028, 17944>>,
       <<37029, 17945>>, <<37030, 9104>>, <<37031, 17946>>, <<37032, 17947>>, <<37033, 17948>>,
       <<37034, 15122>>, <<37035, 17949>>, <<37036, 17095>>, <<37037, 17950>>, <<37038, 15718>>,
       <<37039, 10936>>, <<37040, 17198>>, <<37041, 13477>>, <<37042, 17951>>, <<37043, 17098>>,
       <<37044, 17097>>, <<37045, 13835>>, <<37046, 17099>>, <<37047, 17952>>, <<37048, 17197>>,
       <<37049, 16498>>, <<37050, 17100>>, <<37051, 12314>>, <<37052, 17953>>, <<37053, 17954>>,
       <<37054, 17201>>, <<37055, 17955>>, <<37056, 17956>>, <<37057, 15760>>, <<37058, 18051>>,
       <<37059, 18052>>, <<37060, 17203>>, <<37061, 17200>>, <<37062, 18053>>, <<37063, 17204>>,
       <<37064, 18054>>, <<37065, 18055>>, <<37066, 11524>>, <<37067, 18056>>, <<37068, 18057>>,
       <<37069, 18058>>, <<37070, 12107>>, <<37071, 17199>>, <<37072, 17202>>, <<37073, 16249>>,
       <<37074, 18059>>, <<37075, 17205>>, <<37076, 18060>>, <<37077, 18061>>, <<37078, 18062>>,
       <<37079, 17209>>, <<37080, 18063>>, <<37081, 18064>>, <<37082, 18065>>, <<37083, 17210>>,
       <<37084, 17208>>, <<37085, 10960>>, <<37086, 18066>>, <<37087, 18067>>, <<37088, 18068>>,
       <<37089, 11880>>, <<37090, 17207>>, <<37091, 18069>>, <<37092, 18070>>, <<37093, 18071>>,
       <<37094, 17206>>, <<37095, 15905>>, <<37096, 9437>>, <<37097, 18072>>, <<37098, 18073>>,
       <<37099, 17211>>, <<37100, 18074>>, <<37101, 10825>>, <<37102, 18075>>, <<37103, 17212>>,
       <<37104, 18076>>, <<37105, 18077>>, <<37106, 18078>>, <<37107, 18079>>, <<37108, 9623>>,
       <<37109, 18080>>, <<37110, 18081>>, <<37111, 18082>>, <<37112, 9982>>, <<37113, 18083>>,
       <<37114, 18084>>, <<37115, 18085>>, <<37116, 18086>>, <<37117, 10194>>, <<37118, 17213>>,
       <<37119, 18087>>, <<37120, 18088>>, <<37121, 18089>>, <<37122, 10251>>, <<37123, 18090>>,
       <<37124, 17214>>, <<37125, 18091>>, <<37126, 18092>>, <<37127, 18093>>, <<37128, 18094>>,
       <<37129, 18095>>, <<37130, 18096>>, <<37131, 18097>>, <<37132, 18098>>, <<37133, 18099>>,
       <<37134, 18100>>, <<37135, 18101>>, <<37136, 18102>>, <<37137, 18103>>, <<37138, 18104>>,
       <<37139, 18105>>, <<37140, 18106>>, <<37141, 18107>>, <<37142, 18108>>, <<37143, 18109>>,
       <<37144, 18110>>, <<37145, 9257>>, <<37146, 18111>>, <<37147, 18112>>, <<37148, 18113>>,
       <<37149, 18114>>, <<37150, 17216>>, <<37151, 18115>>, <<37152, 18116>>, <<37153, 18117>>,
       <<37154, 17215>>, <<37155, 17217>>, <<37156, 18118>>, <<37157, 18119>>, <<37158, 18120>>,
       <<37159, 18121>>, <<37160, 18122>>, <<37161, 18123>>, <<37162, 18124>>, <<37163, 18125>>,
       <<37164, 18126>>, <<37165, 18127>>, <<37166, 18128>>, <<37167, 17219>>, <<37168, 18129>>,
       <<37169, 17218>>, <<37170, 18130>>, <<37171, 18131>>, <<37172, 18132>>, <<37173, 18133>>,
       <<37174, 18134>>, <<37175, 18135>>, <<37176, 18136>>, <<37177, 17220>>, <<37178, 18137>>,
       <<37179, 18138>>, <<37180, 18139>>, <<37181, 18140>>, <<37182, 18141>>, <<37183, 18142>>,
       <<37184, 18143>>, <<37185, 18144>>, <<37186, 18145>>, <<37187, 17221>>, <<37188, 18146>>,
       <<37189, 18241>>, <<37190, 17222>>, <<37191, 18242>>, <<37192, 18243>>, <<37193, 15723>>,
       <<37194, 22036>>, <<37195, 13481>>, <<37196, 16471>>, <<37197, 13084>>, <<37198, 22038>>,
       <<37199, 22039>>, <<37200, 22037>>, <<37201, 18244>>, <<37202, 11724>>, <<37203, 18245>>,
       <<37204, 18246>>, <<37205, 18247>>, <<37206, 18248>>, <<37207, 15185>>, <<37208, 18249>>,
       <<37209, 18250>>, <<37210, 10407>>, <<37211, 18251>>, <<37212, 18252>>, <<37213, 15911>>,
       <<37214, 14356>>, <<37215, 18253>>, <<37216, 18254>>, <<37217, 22138>>, <<37218, 22137>>,
       <<37219, 10934>>, <<37220, 22040>>, <<37221, 14210>>, <<37222, 18255>>, <<37223, 18256>>,
       <<37224, 18257>>, <<37225, 22140>>, <<37226, 12116>>, <<37227, 18258>>, <<37228, 9670>>,
       <<37229, 18259>>, <<37230, 14546>>, <<37231, 22141>>, <<37232, 22139>>, <<37233, 11516>>,
       <<37234, 22144>>, <<37235, 18260>>, <<37236, 22145>>, <<37237, 11541>>, <<37238, 12660>>,
       <<37239, 11941>>, <<37240, 14221>>, <<37241, 22146>>, <<37242, 18261>>, <<37243, 18262>>,
       <<37244, 18263>>, <<37245, 22142>>, <<37246, 22143>>, <<37247, 12906>>, <<37248, 18264>>,
       <<37249, 18265>>, <<37250, 18266>>, <<37251, 18267>>, <<37252, 18268>>, <<37253, 22148>>,
       <<37254, 18269>>, <<37255, 9814>>, <<37256, 18270>>, <<37257, 16513>>, <<37258, 18271>>,
       <<37259, 9841>>, <<37260, 22147>>, <<37261, 22150>>, <<37262, 18272>>, <<37263, 18273>>,
       <<37264, 22149>>, <<37265, 22151>>, <<37266, 15155>>, <<37267, 18274>>, <<37268, 18275>>,
       <<37269, 18276>>, <<37270, 18277>>, <<37271, 18278>>, <<37272, 18279>>, <<37273, 18280>>,
       <<37274, 12685>>, <<37275, 13595>>, <<37276, 18281>>, <<37277, 18282>>, <<37278, 18283>>,
       <<37279, 18284>>, <<37280, 18285>>, <<37281, 18286>>, <<37282, 22152>>, <<37283, 22153>>,
       <<37284, 18287>>, <<37285, 18288>>, <<37286, 18289>>, <<37287, 18290>>, <<37288, 18291>>,
       <<37289, 18292>>, <<37290, 22154>>, <<37291, 18293>>, <<37292, 18294>>, <<37293, 22155>>,
       <<37294, 22156>>, <<37295, 22157>>, <<37296, 18295>>, <<37297, 18296>>, <<37298, 18297>>,
       <<37299, 18298>>, <<37300, 22159>>, <<37301, 22158>>, <<37302, 18299>>, <<37303, 18300>>,
       <<37304, 18301>>, <<37305, 18302>>, <<37306, 22160>>, <<37307, 18303>>, <<37308, 18304>>,
       <<37309, 18305>>, <<37310, 18306>>, <<37311, 18307>>, <<37312, 18308>>, <<37313, 18309>>,
       <<37314, 18310>>, <<37315, 18311>>, <<37316, 18312>>, <<37317, 18313>>, <<37318, 18314>>,
       <<37319, 9447>>, <<37320, 18315>>, <<37321, 15728>>, <<37322, 14011>>, <<37323, 18316>>,
       <<37324, 12145>>, <<37325, 16302>>, <<37326, 15502>>, <<37327, 12287>>, <<37328, 18317>>,
       <<37329, 11576>>, <<37330, 18318>>, <<37331, 18319>>, <<37332, 18320>>, <<37333, 18321>>,
       <<37334, 18322>>, <<37335, 18323>>, <<37336, 18324>>, <<37337, 18325>>, <<37338, 18326>>,
       <<37339, 18327>>, <<37340, 10556>>, <<37341, 18328>>, <<37342, 18329>>, <<37343, 18330>>,
       <<37344, 18331>>, <<37345, 18332>>, <<37346, 18333>>, <<37347, 18334>>, <<37348, 18335>>,
       <<37349, 18336>>, <<37350, 18431>>, <<37351, 18432>>, <<37352, 18433>>, <<37353, 18434>>,
       <<37354, 18435>>, <<37355, 18436>>, <<37356, 18437>>, <<37357, 18438>>, <<37358, 18439>>,
       <<37359, 18440>>, <<37360, 18441>>, <<37361, 18442>>, <<37362, 18443>>, <<37363, 18444>>,
       <<37364, 18445>>, <<37365, 18446>>, <<37366, 18447>>, <<37367, 18448>>, <<37368, 18449>>,
       <<37369, 18450>>, <<37370, 18451>>, <<37371, 18452>>, <<37372, 18453>>, <<37373, 18454>>,
       <<37374, 18455>>, <<37375, 18456>>, <<37376, 18457>>, <<37377, 18458>>, <<37378, 18459>>,
       <<37379, 18460>>, <<37380, 18461>>, <<37381, 18462>>, <<37382, 18463>>, <<37383, 18464>>,
       <<37384, 18465>>, <<37385, 18466>>, <<37386, 18467>>, <<37387, 18468>>, <<37388, 18469>>,
       <<37389, 18470>>, <<37390, 18471>>, <<37391, 18472>>, <<37392, 18473>>, <<37393, 18474>>,
       <<37394, 18475>>, <<37395, 18476>>, <<37396, 18477>>, <<37397, 18478>>, <<37398, 18479>>,
       <<37399, 18480>>, <<37400, 18481>>, <<37401, 18482>>, <<37402, 18483>>, <<37403, 18484>>,
       <<37404, 18485>>, <<37405, 18486>>, <<37406, 18487>>, <<37407, 18488>>, <<37408, 18489>>,
       <<37409, 18490>>, <<37410, 18491>>, <<37411, 18492>>, <<37412, 18493>>, <<37413, 18494>>,
       <<37414, 18495>>, <<37415, 18496>>, <<37416, 18497>>, <<37417, 18498>>, <<37418, 18499>>,
       <<37419, 18500>>, <<37420, 18501>>, <<37421, 18502>>, <<37422, 18503>>, <<37423, 18504>>,
       <<37424, 18505>>, <<37425, 18506>>, <<37426, 18507>>, <<37427, 18508>>, <<37428, 18509>>,
       <<37429, 18510>>, <<37430, 18511>>, <<37431, 18512>>, <<37432, 18513>>, <<37433, 18514>>,
       <<37434, 18515>>, <<37435, 18516>>, <<37436, 18517>>, <<37437, 18518>>, <<37438, 18519>>,
       <<37439, 18520>>, <<37440, 18521>>, <<37441, 18522>>, <<37442, 18523>>, <<37443, 18524>>,
       <<37444, 18525>>, <<37445, 18526>>, <<37446, 18621>>, <<37447, 18622>>, <<37448, 18623>>,
       <<37449, 18624>>, <<37450, 18625>>, <<37451, 18626>>, <<37452, 18627>>, <<37453, 18628>>,
       <<37454, 18629>>, <<37455, 18630>>, <<37456, 18631>>, <<37457, 18632>>, <<37458, 18633>>,
       <<37459, 18634>>, <<37460, 18635>>, <<37461, 18636>>, <<37462, 18637>>, <<37463, 18638>>,
       <<37464, 18639>>, <<37465, 18640>>, <<37466, 18641>>, <<37467, 18642>>, <<37468, 18643>>,
       <<37469, 18644>>, <<37470, 18645>>, <<37471, 18646>>, <<37472, 18647>>, <<37473, 18648>>,
       <<37474, 18649>>, <<37475, 18650>>, <<37476, 18651>>, <<37477, 18652>>, <<37478, 18653>>,
       <<37479, 18654>>, <<37480, 18655>>, <<37481, 18656>>, <<37482, 18657>>, <<37483, 18658>>,
       <<37484, 18659>>, <<37485, 18660>>, <<37486, 18661>>, <<37487, 18662>>, <<37488, 18663>>,
       <<37489, 18664>>, <<37490, 18665>>, <<37491, 18666>>, <<37492, 11394>>, <<37493, 18667>>,
       <<37494, 18668>>, <<37495, 18669>>, <<37496, 18670>>, <<37497, 18671>>, <<37498, 18672>>,
       <<37499, 18673>>, <<37500, 18674>>, <<37501, 18675>>, <<37502, 18676>>, <<37503, 18677>>,
       <<37504, 18678>>, <<37505, 18679>>, <<37506, 18680>>, <<37507, 18681>>, <<37508, 18682>>,
       <<37509, 18683>>, <<37510, 18684>>, <<37511, 18685>>, <<37512, 18686>>, <<37513, 18687>>,
       <<37514, 18688>>, <<37515, 18689>>, <<37516, 18690>>, <<37517, 18691>>, <<37518, 22364>>,
       <<37519, 18692>>, <<37520, 18693>>, <<37521, 18694>>, <<37522, 18695>>, <<37523, 18696>>,
       <<37524, 18697>>, <<37525, 18698>>, <<37526, 18699>>, <<37527, 18700>>, <<37528, 18701>>,
       <<37529, 18702>>, <<37530, 18703>>, <<37531, 18704>>, <<37532, 18705>>, <<37533, 18706>>,
       <<37534, 18707>>, <<37535, 18708>>, <<37536, 18709>>, <<37537, 18710>>, <<37538, 18711>>,
       <<37539, 18712>>, <<37540, 18713>>, <<37541, 18714>>, <<37542, 18715>>, <<37543, 18716>>,
       <<37544, 18811>>, <<37545, 18812>>, <<37546, 18813>>, <<37547, 18814>>, <<37548, 18815>>,
       <<37549, 18816>>, <<37550, 22365>>, <<37551, 18817>>, <<37552, 18818>>, <<37553, 18819>>,
       <<37554, 18820>>, <<37555, 18821>>, <<37556, 18822>>, <<37557, 18823>>, <<37558, 18824>>,
       <<37559, 18825>>, <<37560, 18826>>, <<37561, 18827>>, <<37562, 18828>>, <<37563, 18829>>,
       <<37564, 18830>>, <<37565, 18831>>, <<37566, 18832>>, <<37567, 18833>>, <<37568, 18834>>,
       <<37569, 18835>>, <<37570, 18836>>, <<37571, 18837>>, <<37572, 18838>>, <<37573, 18839>>,
       <<37574, 18840>>, <<37575, 18841>>, <<37576, 22366>>, <<37577, 18842>>, <<37578, 18843>>,
       <<37579, 18844>>, <<37580, 18845>>, <<37581, 18846>>, <<37582, 18847>>, <<37583, 18848>>,
       <<37584, 18849>>, <<37585, 18850>>, <<37586, 18851>>, <<37587, 18852>>, <<37588, 18853>>,
       <<37589, 18854>>, <<37590, 18855>>, <<37591, 18856>>, <<37592, 18857>>, <<37593, 18858>>,
       <<37594, 18859>>, <<37595, 18860>>, <<37596, 18861>>, <<37597, 18862>>, <<37598, 18863>>,
       <<37599, 18864>>, <<37600, 18865>>, <<37601, 18866>>, <<37602, 18867>>, <<37603, 18868>>,
       <<37604, 18869>>, <<37605, 18870>>, <<37606, 18871>>, <<37607, 18872>>, <<37608, 18873>>,
       <<37609, 18874>>, <<37610, 18875>>, <<37611, 18876>>, <<37612, 18877>>, <<37613, 18878>>,
       <<37614, 18879>>, <<37615, 18880>>, <<37616, 18881>>, <<37617, 18882>>, <<37618, 18883>>,
       <<37619, 18884>>, <<37620, 18885>>, <<37621, 18886>>, <<37622, 18887>>, <<37623, 18888>>,
       <<37624, 18889>>, <<37625, 18890>>, <<37626, 18891>>, <<37627, 18892>>, <<37628, 18893>>,
       <<37629, 18894>>, <<37630, 18895>>, <<37631, 18896>>, <<37632, 18897>>, <<37633, 18898>>,
       <<37634, 18899>>, <<37635, 18900>>, <<37636, 18901>>, <<37637, 18902>>, <<37638, 18903>>,
       <<37639, 18904>>, <<37640, 18905>>, <<37641, 18906>>, <<37642, 19001>>, <<37643, 19002>>,
       <<37644, 19003>>, <<37645, 19004>>, <<37646, 19005>>, <<37647, 19006>>, <<37648, 19007>>,
       <<37649, 19008>>, <<37650, 19009>>, <<37651, 19010>>, <<37652, 19011>>, <<37653, 19012>>,
       <<37654, 19013>>, <<37655, 19014>>, <<37656, 19015>>, <<37657, 19016>>, <<37658, 19017>>,
       <<37659, 19018>>, <<37660, 19019>>, <<37661, 19020>>, <<37662, 19021>>, <<37663, 19022>>,
       <<37664, 19023>>, <<37665, 19024>>, <<37666, 19025>>, <<37667, 19026>>, <<37668, 19027>>,
       <<37669, 19028>>, <<37670, 19029>>, <<37671, 19030>>, <<37672, 19031>>, <<37673, 19032>>,
       <<37674, 19033>>, <<37675, 19034>>, <<37676, 19035>>, <<37677, 19036>>, <<37678, 19037>>,
       <<37679, 19038>>, <<37680, 19039>>, <<37681, 19040>>, <<37682, 19041>>, <<37683, 19042>>,
       <<37684, 19043>>, <<37685, 19044>>, <<37686, 19045>>, <<37687, 19046>>, <<37688, 19047>>,
       <<37689, 19048>>, <<37690, 19049>>, <<37691, 19050>>, <<37692, 19051>>, <<37693, 19052>>,
       <<37694, 22367>>, <<37695, 19053>>, <<37696, 19054>>, <<37697, 19055>>, <<37698, 19056>>,
       <<37699, 19057>>, <<37700, 19058>>, <<37701, 19059>>, <<37702, 19060>>, <<37703, 19061>>,
       <<37704, 19062>>, <<37705, 19063>>, <<37706, 19064>>, <<37707, 19065>>, <<37708, 19066>>,
       <<37709, 19067>>, <<37710, 19068>>, <<37711, 19069>>, <<37712, 19070>>, <<37713, 19071>>,
       <<37714, 19072>>, <<37715, 19073>>, <<37716, 19074>>, <<37717, 19075>>, <<37718, 19076>>,
       <<37719, 19077>>, <<37720, 19078>>, <<37721, 19079>>, <<37722, 19080>>, <<37723, 19081>>,
       <<37724, 19082>>, <<37725, 19083>>, <<37726, 19084>>, <<37727, 19085>>, <<37728, 19086>>,
       <<37729, 19087>>, <<37730, 19088>>, <<37731, 19089>>, <<37732, 19090>>, <<37733, 19091>>,
       <<37734, 19092>>, <<37735, 19093>>, <<37736, 19094>>, <<37737, 19095>>, <<37738, 22368>>,
       <<37739, 19096>>, <<37740, 19191>>, <<37741, 19192>>, <<37742, 19193>>, <<37743, 19194>>,
       <<37744, 19195>>, <<37745, 19196>>, <<37746, 19197>>, <<37747, 19198>>, <<37748, 19199>>,
       <<37749, 19200>>, <<37750, 19201>>, <<37751, 19202>>, <<37752, 19203>>, <<37753, 19204>>,
       <<37754, 19205>>, <<37755, 19206>>, <<37756, 19207>>, <<37757, 19208>>, <<37758, 19209>>,
       <<37759, 19210>>, <<37760, 19211>>, <<37761, 19212>>, <<37762, 19213>>, <<37763, 19214>>,
       <<37764, 19215>>, <<37765, 19216>>, <<37766, 19217>>, <<37767, 19218>>, <<37768, 19219>>,
       <<37769, 19220>>, <<37770, 19221>>, <<37771, 19222>>, <<37772, 19223>>, <<37773, 19224>>,
       <<37774, 19225>>, <<37775, 22370>>, <<37776, 19226>>, <<37777, 19227>>, <<37778, 19228>>,
       <<37779, 19229>>, <<37780, 19230>>, <<37781, 19231>>, <<37782, 19232>>, <<37783, 19233>>,
       <<37784, 19234>>, <<37785, 19235>>, <<37786, 19236>>, <<37787, 19237>>, <<37788, 19238>>,
       <<37789, 19239>>, <<37790, 19240>>, <<37791, 19241>>, <<37792, 19242>>, <<37793, 19243>>,
       <<37794, 19244>>, <<37795, 19245>>, <<37796, 19246>>, <<37797, 19247>>, <<37798, 19248>>,
       <<37799, 19249>>, <<37800, 19250>>, <<37801, 19251>>, <<37802, 19252>>, <<37803, 19253>>,
       <<37804, 19254>>, <<37805, 19255>>, <<37806, 19256>>, <<37807, 19257>>, <<37808, 19258>>,
       <<37809, 19259>>, <<37810, 19260>>, <<37811, 19261>>, <<37812, 19262>>, <<37813, 19263>>,
       <<37814, 19264>>, <<37815, 19265>>, <<37816, 19266>>, <<37817, 19267>>, <<37818, 19268>>,
       <<37819, 19269>>, <<37820, 19270>>, <<37821, 19271>>, <<37822, 19272>>, <<37823, 19273>>,
       <<37824, 19274>>, <<37825, 19275>>, <<37826, 19276>>, <<37827, 19277>>, <<37828, 19278>>,
       <<37829, 19279>>, <<37830, 19280>>, <<37831, 19281>>, <<37832, 19282>>, <<37833, 19283>>,
       <<37834, 22369>>, <<37835, 19284>>, <<37836, 19285>>, <<37837, 19286>>, <<37838, 19381>>,
       <<37839, 19382>>, <<37840, 19383>>, <<37841, 19384>>, <<37842, 19385>>, <<37843, 19386>>,
       <<37844, 19387>>, <<37845, 19388>>, <<37846, 22589>>, <<37847, 19389>>, <<37848, 19390>>,
       <<37849, 19391>>, <<37850, 19392>>, <<37851, 19393>>, <<37852, 19394>>, <<37853, 19395>>,
       <<37854, 19396>>, <<37855, 19397>>, <<37856, 19398>>, <<37857, 19399>>, <<37858, 19400>>,
       <<37859, 19401>>, <<37860, 19402>>, <<37861, 19403>>, <<37862, 19404>>, <<37863, 19405>>,
       <<37864, 19406>>, <<37865, 19407>>, <<37866, 19408>>, <<37867, 19409>>, <<37868, 19410>>,
       <<37869, 19411>>, <<37870, 19412>>, <<37871, 19413>>, <<37872, 19414>>, <<37873, 19415>>,
       <<37874, 19416>>, <<37875, 19417>>, <<37876, 19418>>, <<37877, 19419>>, <<37878, 19420>>,
       <<37879, 19421>>, <<37880, 19422>>, <<37881, 19423>>, <<37882, 19424>>, <<37883, 19425>>,
       <<37884, 19426>>, <<37885, 19427>>, <<37886, 19428>>, <<37887, 19429>>, <<37888, 19430>>,
       <<37889, 19431>>, <<37890, 19432>>, <<37891, 19433>>, <<37892, 19434>>, <<37893, 19435>>,
       <<37894, 19436>>, <<37895, 19437>>, <<37896, 19438>>, <<37897, 19439>>, <<37898, 19440>>,
       <<37899, 19441>>, <<37900, 19442>>, <<37901, 19443>>, <<37902, 19444>>, <<37903, 19445>>,
       <<37904, 19446>>, <<37905, 19447>>, <<37906, 19448>>, <<37907, 19449>>, <<37908, 19450>>,
       <<37909, 19451>>, <<37910, 19452>>, <<37911, 19453>>, <<37912, 19454>>, <<37913, 19455>>,
       <<37914, 19456>>, <<37915, 19457>>, <<37916, 19458>>, <<37917, 19459>>, <<37918, 19460>>,
       <<37919, 19461>>, <<37920, 19462>>, <<37921, 19463>>, <<37922, 19464>>, <<37923, 19465>>,
       <<37924, 19466>>, <<37925, 19467>>, <<37926, 19468>>, <<37927, 19469>>, <<37928, 19470>>,
       <<37929, 19471>>, <<37930, 19472>>, <<37931, 19473>>, <<37932, 19474>>, <<37933, 19475>>,
       <<37934, 19476>>, <<37935, 19571>>, <<37936, 19572>>, <<37937, 19573>>, <<37938, 19574>>,
       <<37939, 19575>>, <<37940, 19576>>, <<37941, 19577>>, <<37942, 19578>>, <<37943, 19579>>,
       <<37944, 19580>>, <<37945, 19581>>, <<37946, 19582>>, <<37947, 19583>>, <<37948, 19584>>,
       <<37949, 19585>>, <<37950, 22371>>, <<37951, 19586>>, <<37952, 19587>>, <<37953, 19588>>,
       <<37954, 19589>>, <<37955, 19590>>, <<37956, 19591>>, <<37957, 19592>>, <<37958, 19593>>,
       <<37959, 19594>>, <<37960, 19595>>, <<37961, 19596>>, <<37962, 19597>>, <<37963, 19598>>,
       <<37964, 19599>>, <<37965, 19600>>, <<37966, 19601>>, <<37967, 19602>>, <<37968, 19603>>,
       <<37969, 19604>>, <<37970, 19605>>, <<37971, 19606>>, <<37972, 19607>>, <<37973, 19608>>,
       <<37974, 19609>>, <<37975, 19610>>, <<37976, 19611>>, <<37977, 19612>>, <<37978, 19613>>,
       <<37979, 19614>>, <<37980, 19615>>, <<37981, 19616>>, <<37982, 19617>>, <<37983, 19618>>,
       <<37984, 19619>>, <<37985, 19620>>, <<37986, 19621>>, <<37987, 19622>>, <<37988, 19623>>,
       <<37989, 19624>>, <<37990, 19625>>, <<37991, 19626>>, <<37992, 19627>>, <<37993, 19628>>,
       <<37994, 19629>>, <<37995, 22372>>, <<37996, 19630>>, <<37997, 19631>>, <<37998, 19632>>,
       <<37999, 19633>>, <<38000, 19634>>, <<38001, 19635>>, <<38002, 19636>>, <<38003, 19637>>,
       <<38004, 19638>>, <<38005, 19639>>, <<38006, 19640>>, <<38007, 19641>>, <<38008, 19642>>,
       <<38009, 19643>>, <<38010, 19644>>, <<38011, 19645>>, <<38012, 19646>>, <<38013, 19647>>,
       <<38014, 19648>>, <<38015, 19649>>, <<38016, 19650>>, <<38017, 19651>>, <<38018, 19652>>,
       <<38019, 19653>>, <<38020, 19654>>, <<38021, 20842>>, <<38022, 20843>>, <<38023, 20844>>,
       <<38024, 16131>>, <<38025, 10170>>, <<38026, 20846>>, <<38027, 20845>>, <<38028, 20847>>,
       <<38029, 20848>>, <<38030, 13401>>, <<38031, 20849>>, <<38032, 20850>>, <<38033, 19655>>,
       <<38034, 10372>>, <<38035, 10062>>, <<38036, 20851>>, <<38037, 20853>>, <<38038, 19656>>,
       <<38039, 20852>>, <<38040, 19657>>, <<38041, 10584>>, <<38042, 20854>>, <<38043, 20855>>,
       <<38044, 20856>>, <<38045, 10225>>, <<38046, 9610>>, <<38047, 16297>>, <<38048, 12864>>,
       <<38049, 9237>>, <<38050, 10600>>, <<38051, 20857>>, <<38052, 20858>>, <<38053, 15897>>,
       <<38054, 13449>>, <<38055, 11777>>, <<38056, 14783>>, <<38057, 10755>>, <<38058, 20860>>,
       <<38059, 20859>>, <<38060, 20862>>, <<38061, 20861>>, <<38062, 13021>>, <<38063, 20863>>,
       <<38064, 20864>>, <<38065, 13410>>, <<38066, 20865>>, <<38067, 13411>>, <<38068, 20866>>,
       <<38069, 9413>>, <<38070, 20867>>, <<38071, 20868>>, <<38072, 20869>>, <<38073, 20870>>,
       <<38074, 20871>>, <<38075, 16510>>, <<38076, 20872>>, <<38077, 20873>>, <<38078, 11362>>,
       <<38079, 20874>>, <<38080, 15719>>, <<38081, 14436>>, <<38082, 9418>>, <<38083, 12325>>,
       <<38084, 20875>>, <<38085, 13402>>, <<38086, 12649>>, <<38087, 19658>>, <<38088, 20876>>,
       <<38089, 20877>>, <<38090, 20878>>, <<38091, 20879>>, <<38092, 20880>>, <<38093, 20881>>,
       <<38094, 20882>>, <<38095, 19659>>, <<38096, 20883>>, <<38097, 20884>>, <<38098, 20885>>,
       <<38099, 19660>>, <<38100, 19661>>, <<38101, 20886>>, <<38102, 20887>>, <<38103, 20888>>,
       <<38104, 20890>>, <<38105, 20889>>, <<38106, 19662>>, <<38107, 20891>>, <<38108, 14549>>,
       <<38109, 12479>>, <<38110, 20892>>, <<38111, 20893>>, <<38112, 20894>>, <<38113, 16057>>,
       <<38114, 20895>>, <<38115, 14935>>, <<38116, 20896>>, <<38117, 20897>>, <<38118, 19663>>,
       <<38119, 20898>>, <<38120, 20899>>, <<38121, 20997>>, <<38122, 20900>>, <<38123, 20998>>,
       <<38124, 10631>>, <<38125, 12726>>, <<38126, 20999>>, <<38127, 21000>>, <<38128, 11530>>,
       <<38129, 15517>>, <<38130, 9495>>, <<38131, 21001>>, <<38132, 21002>>, <<38133, 21003>>,
       <<38134, 15574>>, <<38135, 21004>>, <<38136, 16339>>, <<38137, 21005>>, <<38138, 13250>>,
       <<38139, 19664>>, <<38140, 21006>>, <<38141, 21007>>, <<38142, 12276>>, <<38143, 21008>>,
       <<38144, 15006>>, <<38145, 14244>>, <<38146, 21010>>, <<38147, 21009>>, <<38148, 9686>>,
       <<38149, 10824>>, <<38150, 21011>>, <<38151, 21012>>, <<38152, 15172>>, <<38153, 21013>>,
       <<38154, 21014>>, <<38155, 10426>>, <<38156, 15137>>, <<38157, 21015>>, <<38158, 21016>>,
       <<38159, 21017>>, <<38160, 13667>>, <<38161, 14410>>, <<38162, 21018>>, <<38163, 21019>>,
       <<38164, 21020>>, <<38165, 21021>>, <<38166, 21022>>, <<38167, 16120>>, <<38168, 21023>>,
       <<38169, 9863>>, <<38170, 12646>>, <<38171, 21024>>, <<38172, 19665>>, <<38173, 21025>>,
       <<38174, 21026>>, <<38175, 21027>>, <<38176, 19666>>, <<38177, 14819>>, <<38178, 21028>>,
       <<38179, 12510>>, <<38180, 9810>>, <<38181, 16458>>, <<38182, 11581>>, <<38183, 19761>>,
       <<38184, 14955>>, <<38185, 21031>>, <<38186, 21029>>, <<38187, 21030>>, <<38188, 21032>>,
       <<38189, 10173>>, <<38190, 11398>>, <<38191, 11752>>, <<38192, 12680>>, <<38193, 21033>>,
       <<38194, 21034>>, <<38195, 19762>>, <<38196, 21035>>, <<38197, 21043>>, <<38198, 21036>>,
       <<38199, 21037>>, <<38200, 21038>>, <<38201, 13430>>, <<38202, 21077>>, <<38203, 10211>>,
       <<38204, 21039>>, <<38205, 19763>>, <<38206, 21040>>, <<38207, 21041>>, <<38208, 10204>>,
       <<38209, 12666>>, <<38210, 21042>>, <<38211, 19764>>, <<38212, 21044>>, <<38213, 21045>>,
       <<38214, 21046>>, <<38215, 16138>>, <<38216, 19765>>, <<38217, 21047>>, <<38218, 12913>>,
       <<38219, 19766>>, <<38220, 21048>>, <<38221, 12914>>, <<38222, 21049>>, <<38223, 21050>>,
       <<38224, 10614>>, <<38225, 9113>>, <<38226, 21051>>, <<38227, 21052>>, <<38228, 21053>>,
       <<38229, 19767>>, <<38230, 21054>>, <<38231, 21055>>, <<38232, 21056>>, <<38233, 21057>>,
       <<38234, 19768>>, <<38235, 21058>>, <<38236, 11707>>, <<38237, 21061>>, <<38238, 21059>>,
       <<38239, 21060>>, <<38240, 19769>>, <<38241, 21062>>, <<38242, 21063>>, <<38243, 12301>>,
       <<38244, 21064>>, <<38245, 21065>>, <<38246, 21066>>, <<38247, 21067>>, <<38248, 21068>>,
       <<38249, 21069>>, <<38250, 21070>>, <<38251, 21071>>, <<38252, 21072>>, <<38253, 12122>>,
       <<38254, 19770>>, <<38255, 21073>>, <<38256, 12269>>, <<38257, 21074>>, <<38258, 21075>>,
       <<38259, 21076>>, <<38260, 19771>>, <<38261, 19772>>, <<38262, 14982>>, <<38263, 19773>>,
       <<38264, 19774>>, <<38265, 19775>>, <<38266, 19776>>, <<38267, 19777>>, <<38268, 19778>>,
       <<38269, 19779>>, <<38270, 19780>>, <<38271, 9600>>, <<38272, 19781>>, <<38273, 19782>>,
       <<38274, 19783>>, <<38275, 19784>>, <<38276, 19785>>, <<38277, 19786>>, <<38278, 19787>>,
       <<38279, 19788>>, <<38280, 19789>>, <<38281, 19790>>, <<38282, 19791>>, <<38283, 19792>>,
       <<38284, 19793>>, <<38285, 19794>>, <<38286, 19795>>, <<38287, 19796>>, <<38288, 19797>>,
       <<38289, 19798>>, <<38290, 19799>>, <<38291, 19800>>, <<38292, 19801>>, <<38293, 19802>>,
       <<38294, 19803>>, <<38295, 19804>>, <<38296, 19805>>, <<38297, 19806>>, <<38298, 19807>>,
       <<38299, 19808>>, <<38300, 19809>>, <<38301, 19810>>, <<38302, 19811>>, <<38303, 19812>>,
       <<38304, 19813>>, <<38305, 19814>>, <<38306, 19815>>, <<38307, 19816>>, <<38308, 19817>>,
       <<38309, 19818>>, <<38310, 19819>>, <<38311, 19820>>, <<38312, 19821>>, <<38313, 19822>>,
       <<38314, 19823>>, <<38315, 19824>>, <<38316, 19825>>, <<38317, 19826>>, <<38318, 19827>>,
       <<38319, 19828>>, <<38320, 19829>>, <<38321, 19830>>, <<38322, 19831>>, <<38323, 19832>>,
       <<38324, 19833>>, <<38325, 19834>>, <<38326, 19835>>, <<38327, 19836>>, <<38328, 19837>>,
       <<38329, 19838>>, <<38330, 19839>>, <<38331, 19840>>, <<38332, 19841>>, <<38333, 19842>>,
       <<38334, 19843>>, <<38335, 19844>>, <<38336, 19845>>, <<38337, 19846>>, <<38338, 19847>>,
       <<38339, 19848>>, <<38340, 19849>>, <<38341, 19850>>, <<38342, 19851>>, <<38343, 19852>>,
       <<38344, 19853>>, <<38345, 19854>>, <<38346, 19855>>, <<38347, 19856>>, <<38348, 19951>>,
       <<38349, 19952>>, <<38350, 19953>>, <<38351, 19954>>, <<38352, 19955>>, <<38353, 19956>>,
       <<38354, 19957>>, <<38355, 19958>>, <<38356, 19959>>, <<38357, 19960>>, <<38358, 19961>>,
       <<38359, 19962>>, <<38360, 19963>>, <<38361, 19964>>, <<38362, 19965>>, <<38363, 19966>>,
       <<38364, 19967>>, <<38365, 19968>>, <<38366, 19969>>, <<38367, 19970>>, <<38368, 19971>>,
       <<38369, 19972>>, <<38370, 19973>>, <<38371, 19974>>, <<38372, 19975>>, <<38373, 19976>>,
       <<38374, 19977>>, <<38375, 19978>>, <<38376, 12673>>, <<38377, 18753>>, <<38378, 13809>>,
       <<38379, 18754>>, <<38380, 19979>>, <<38381, 9269>>, <<38382, 14768>>, <<38383, 9805>>,
       <<38384, 13668>>, <<38385, 18755>>, <<38386, 14964>>, <<38387, 18756>>, <<38388, 11374>>,
       <<38389, 18757>>, <<38390, 18758>>, <<38391, 12674>>, <<38392, 16058>>, <<38393, 12880>>,
       <<38394, 10811>>, <<38395, 14763>>, <<38396, 18759>>, <<38397, 12722>>, <<38398, 18760>>,
       <<38399, 19980>>, <<38400, 10363>>, <<38401, 10629>>, <<38402, 10976>>, <<38403, 18761>>,
       <<38404, 18762>>, <<38405, 15902>>, <<38406, 18763>>, <<38407, 19981>>, <<38408, 18764>>,
       <<38409, 15339>>, <<38410, 18765>>, <<38411, 18766>>, <<38412, 18767>>, <<38413, 18768>>,
       <<38414, 15350>>, <<38415, 18769>>, <<38416, 9497>>, <<38417, 12093>>, <<38418, 18770>>,
       <<38419, 19982>>, <<38420, 12077>>, <<38421, 18771>>, <<38422, 18772>>, <<38423, 18773>>,
       <<38424, 19983>>, <<38425, 18774>>, <<38426, 18775>>, <<38427, 19984>>, <<38428, 10569>>,
       <<38429, 17072>>, <<38430, 19985>>, <<38431, 10217>>, <<38432, 19986>>, <<38433, 17074>>,
       <<38434, 17073>>, <<38435, 19987>>, <<38436, 19988>>, <<38437, 19989>>, <<38438, 19990>>,
       <<38439, 19991>>, <<38440, 19992>>, <<38441, 19993>>, <<38442, 17076>>, <<38443, 19994>>,
       <<38444, 19995>>, <<38445, 19996>>, <<38446, 13664>>, <<38447, 19997>>, <<38448, 19998>>,
       <<38449, 17075>>, <<38450, 10388>>, <<38451, 15380>>, <<38452, 15571>>, <<38453, 16139>>,
       <<38454, 11551>>, <<38455, 19999>>, <<38456, 20000>>, <<38457, 20001>>, <<38458, 20002>>,
       <<38459, 16508>>, <<38460, 17078>>, <<38461, 17077>>, <<38462, 20003>>, <<38463, 9028>>,
       <<38464, 14587>>, <<38465, 20004>>, <<38466, 17079>>, <<38467, 20005>>, <<38468, 10575>>,
       <<38469, 11348>>, <<38470, 12475>>, <<38471, 12450>>, <<38472, 9630>>, <<38473, 17080>>,
       <<38474, 20006>>, <<38475, 12456>>, <<38476, 12842>>, <<38477, 11517>>, <<38478, 20007>>,
       <<38479, 20008>>, <<38480, 14978>>, <<38481, 20009>>, <<38482, 20010>>, <<38483, 20011>>,
       <<38484, 17081>>, <<38485, 13810>>, <<38486, 20012>>, <<38487, 20013>>, <<38488, 20014>>,
       <<38489, 20015>>, <<38490, 20016>>, <<38491, 9277>>, <<38492, 20017>>, <<38493, 20018>>,
       <<38494, 20019>>, <<38495, 17082>>, <<38496, 20020>>, <<38497, 10190>>, <<38498, 15892>>,
       <<38499, 20021>>, <<38500, 9689>>, <<38501, 20022>>, <<38502, 20023>>, <<38503, 17083>>,
       <<38504, 15907>>, <<38505, 14969>>, <<38506, 13083>>, <<38507, 20024>>, <<38508, 17084>>,
       <<38509, 20025>>, <<38510, 20026>>, <<38511, 20027>>, <<38512, 20028>>, <<38513, 20029>>,
       <<38514, 17085>>, <<38515, 20030>>, <<38516, 17086>>, <<38517, 12330>>, <<38518, 14399>>,
       <<38519, 14977>>, <<38520, 20031>>, <<38521, 20032>>, <<38522, 20033>>, <<38523, 20034>>,
       <<38524, 20035>>, <<38525, 20036>>, <<38526, 20037>>, <<38527, 20038>>, <<38528, 20039>>,
       <<38529, 20040>>, <<38530, 20041>>, <<38531, 20042>>, <<38532, 20043>>, <<38533, 15747>>,
       <<38534, 12447>>, <<38535, 20044>>, <<38536, 17087>>, <<38537, 20045>>, <<38538, 20046>>,
       <<38539, 14225>>, <<38540, 20141>>, <<38541, 17088>>, <<38542, 20142>>, <<38543, 14226>>,
       <<38544, 15580>>, <<38545, 20143>>, <<38546, 20144>>, <<38547, 20145>>, <<38548, 10630>>,
       <<38549, 20146>>, <<38550, 20147>>, <<38551, 17089>>, <<38552, 9041>>, <<38553, 14938>>,
       <<38554, 20148>>, <<38555, 20149>>, <<38556, 16103>>, <<38557, 20150>>, <<38558, 20151>>,
       <<38559, 20152>>, <<38560, 20153>>, <<38561, 20154>>, <<38562, 20155>>, <<38563, 20156>>,
       <<38564, 20157>>, <<38565, 20158>>, <<38566, 20159>>, <<38567, 14233>>, <<38568, 20160>>,
       <<38569, 20161>>, <<38570, 20162>>, <<38571, 20163>>, <<38572, 20164>>, <<38573, 20165>>,
       <<38574, 20166>>, <<38575, 20167>>, <<38576, 17090>>, <<38577, 20168>>, <<38578, 20169>>,
       <<38579, 18752>>, <<38580, 20170>>, <<38581, 20171>>, <<38582, 12261>>, <<38583, 20172>>,
       <<38584, 20173>>, <<38585, 22357>>, <<38586, 20174>>, <<38587, 20175>>, <<38588, 22358>>,
       <<38589, 22359>>, <<38590, 12875>>, <<38591, 20176>>, <<38592, 13610>>, <<38593, 15363>>,
       <<38594, 20177>>, <<38595, 20178>>, <<38596, 15165>>, <<38597, 15333>>, <<38598, 11321>>,
       <<38599, 10781>>, <<38600, 20179>>, <<38601, 21080>>, <<38602, 20180>>, <<38603, 20181>>,
       <<38604, 9824>>, <<38605, 15702>>, <<38606, 22360>>, <<38607, 9687>>, <<38608, 20182>>,
       <<38609, 20183>>, <<38610, 22361>>, <<38611, 20184>>, <<38612, 20185>>, <<38613, 10057>>,
       <<38614, 20186>>, <<38615, 20187>>, <<38616, 20188>>, <<38617, 20189>>, <<38618, 20190>>,
       <<38619, 20191>>, <<38620, 20192>>, <<38621, 20193>>, <<38622, 20194>>, <<38623, 20195>>,
       <<38624, 22363>>, <<38625, 20196>>, <<38626, 20197>>, <<38627, 20198>>, <<38628, 20199>>,
       <<38629, 20200>>, <<38630, 20201>>, <<38631, 20202>>, <<38632, 15750>>, <<38633, 22333>>,
       <<38634, 15305>>, <<38635, 20203>>, <<38636, 20204>>, <<38637, 20205>>, <<38638, 20206>>,
       <<38639, 22335>>, <<38640, 20207>>, <<38641, 20208>>, <<38642, 20209>>, <<38643, 22334>>,
       <<38644, 20210>>, <<38645, 20211>>, <<38646, 12323>>, <<38647, 12121>>, <<38648, 20212>>,
       <<38649, 9218>>, <<38650, 20213>>, <<38651, 20214>>, <<38652, 20215>>, <<38653, 20216>>,
       <<38654, 14803>>, <<38655, 20217>>, <<38656, 15178>>, <<38657, 22337>>, <<38658, 20218>>,
       <<38659, 20219>>, <<38660, 15002>>, <<38661, 20220>>, <<38662, 22336>>, <<38663, 16136>>,
       <<38664, 22338>>, <<38665, 12661>>, <<38666, 20221>>, <<38667, 20222>>, <<38668, 20223>>,
       <<38669, 11200>>, <<38670, 22340>>, <<38671, 22339>>, <<38672, 20224>>, <<38673, 20225>>,
       <<38674, 20226>>, <<38675, 12888>>, <<38676, 20227>>, <<38677, 20228>>, <<38678, 12312>>,
       <<38679, 20229>>, <<38680, 20230>>, <<38681, 20231>>, <<38682, 20232>>, <<38683, 20233>>,
       <<38684, 14166>>, <<38685, 20234>>, <<38686, 14944>>, <<38687, 20235>>, <<38688, 20236>>,
       <<38689, 20331>>, <<38690, 20332>>, <<38691, 20333>>, <<38692, 20334>>, <<38693, 20335>>,
       <<38694, 20336>>, <<38695, 20337>>, <<38696, 20338>>, <<38697, 20339>>, <<38698, 22341>>,
       <<38699, 20340>>, <<38700, 20341>>, <<38701, 22342>>, <<38702, 20342>>, <<38703, 20343>>,
       <<38704, 22343>>, <<38705, 20344>>, <<38706, 12468>>, <<38707, 20345>>, <<38708, 20346>>,
       <<38709, 20347>>, <<38710, 20348>>, <<38711, 20349>>, <<38712, 9078>>, <<38713, 13105>>,
       <<38714, 20350>>, <<38715, 20351>>, <<38716, 20352>>, <<38717, 20353>>, <<38718, 22344>>,
       <<38719, 20354>>, <<38720, 20355>>, <<38721, 20356>>, <<38722, 20357>>, <<38723, 20358>>,
       <<38724, 20359>>, <<38725, 20360>>, <<38726, 20361>>, <<38727, 20362>>, <<38728, 20363>>,
       <<38729, 20364>>, <<38730, 20365>>, <<38731, 20366>>, <<38732, 20367>>, <<38733, 20368>>,
       <<38734, 20369>>, <<38735, 20370>>, <<38736, 20371>>, <<38737, 20372>>, <<38738, 13460>>,
       <<38739, 22332>>, <<38740, 20373>>, <<38741, 20374>>, <<38742, 11710>>, <<38743, 20375>>,
       <<38744, 20376>>, <<38745, 11704>>, <<38746, 20377>>, <<38747, 10045>>, <<38748, 20378>>,
       <<38749, 20379>>, <<38750, 10395>>, <<38751, 20380>>, <<38752, 11907>>, <<38753, 12686>>,
       <<38754, 12706>>, <<38755, 20381>>, <<38756, 20382>>, <<38757, 16670>>, <<38758, 20383>>,
       <<38759, 20384>>, <<38760, 20385>>, <<38761, 10625>>, <<38762, 20386>>, <<38763, 20387>>,
       <<38764, 20388>>, <<38765, 20389>>, <<38766, 20390>>, <<38767, 20391>>, <<38768, 20392>>,
       <<38769, 20393>>, <<38770, 20394>>, <<38771, 11585>>, <<38772, 15301>>, <<38773, 20395>>,
       <<38774, 9074>>, <<38775, 20396>>, <<38776, 20397>>, <<38777, 20398>>, <<38778, 20399>>,
       <<38779, 20400>>, <<38780, 22532>>, <<38781, 20401>>, <<38782, 20402>>, <<38783, 20403>>,
       <<38784, 20404>>, <<38785, 20405>>, <<38786, 20406>>, <<38787, 20407>>, <<38788, 20408>>,
       <<38789, 22533>>, <<38790, 20409>>, <<38791, 20410>>, <<38792, 20411>>, <<38793, 20412>>,
       <<38794, 20413>>, <<38795, 15118>>, <<38796, 20414>>, <<38797, 9042>>, <<38798, 20415>>,
       <<38799, 20416>>, <<38800, 20417>>, <<38801, 22534>>, <<38802, 22535>>, <<38803, 20418>>,
       <<38804, 22536>>, <<38805, 20419>>, <<38806, 20420>>, <<38807, 20421>>, <<38808, 13438>>,
       <<38809, 20422>>, <<38810, 20423>>, <<38811, 20424>>, <<38812, 20425>>, <<38813, 20426>>,
       <<38814, 20521>>, <<38815, 20522>>, <<38816, 11733>>, <<38817, 20523>>, <<38818, 20524>>,
       <<38819, 22539>>, <<38820, 20525>>, <<38821, 20526>>, <<38822, 20527>>, <<38823, 20528>>,
       <<38824, 20529>>, <<38825, 20530>>, <<38826, 20531>>, <<38827, 22538>>, <<38828, 20532>>,
       <<38829, 9278>>, <<38830, 20533>>, <<38831, 22537>>, <<38832, 20534>>, <<38833, 20535>>,
       <<38834, 22540>>, <<38835, 20536>>, <<38836, 22541>>, <<38837, 20537>>, <<38838, 20538>>,
       <<38839, 20539>>, <<38840, 20540>>, <<38841, 20541>>, <<38842, 20542>>, <<38843, 20543>>,
       <<38844, 20544>>, <<38845, 20545>>, <<38846, 20546>>, <<38847, 20547>>, <<38848, 20548>>,
       <<38849, 20549>>, <<38850, 20550>>, <<38851, 20551>>, <<38852, 20552>>, <<38853, 20553>>,
       <<38854, 20554>>, <<38855, 20555>>, <<38856, 20556>>, <<38857, 20557>>, <<38858, 20558>>,
       <<38859, 20559>>, <<38860, 20560>>, <<38861, 20561>>, <<38862, 20562>>, <<38863, 20563>>,
       <<38864, 20564>>, <<38865, 20565>>, <<38866, 20566>>, <<38867, 20567>>, <<38868, 20568>>,
       <<38869, 20569>>, <<38870, 20570>>, <<38871, 20571>>, <<38872, 20572>>, <<38873, 20573>>,
       <<38874, 20574>>, <<38875, 20575>>, <<38876, 20576>>, <<38877, 20577>>, <<38878, 20578>>,
       <<38879, 20579>>, <<38880, 20580>>, <<38881, 20581>>, <<38882, 20582>>, <<38883, 20583>>,
       <<38884, 20584>>, <<38885, 20585>>, <<38886, 14730>>, <<38887, 13631>>, <<38888, 20586>>,
       <<38889, 10937>>, <<38890, 19690>>, <<38891, 19691>>, <<38892, 19692>>, <<38893, 11720>>,
       <<38894, 20587>>, <<38895, 20588>>, <<38896, 20589>>, <<38897, 20590>>, <<38898, 20591>>,
       <<38899, 15570>>, <<38900, 20592>>, <<38901, 15913>>, <<38902, 13832>>, <<38903, 20593>>,
       <<38904, 20594>>, <<38905, 20595>>, <<38906, 20596>>, <<38907, 20597>>, <<38908, 20598>>,
       <<38909, 20599>>, <<38910, 20600>>, <<38911, 20601>>, <<38912, 20602>>, <<38913, 20603>>,
       <<38914, 20604>>, <<38915, 20605>>, <<38916, 20606>>, <<38917, 20607>>, <<38918, 20608>>,
       <<38919, 20609>>, <<38920, 20610>>, <<38921, 20611>>, <<38922, 20612>>, <<38923, 20613>>,
       <<38924, 20614>>, <<38925, 20615>>, <<38926, 20616>>, <<38927, 20711>>, <<38928, 20712>>,
       <<38929, 20713>>, <<38930, 20714>>, <<38931, 20715>>, <<38932, 20716>>, <<38933, 20717>>,
       <<38934, 20718>>, <<38935, 20719>>, <<38936, 20720>>, <<38937, 20721>>, <<38938, 20722>>,
       <<38939, 20723>>, <<38940, 20724>>, <<38941, 20725>>, <<38942, 20726>>, <<38943, 20727>>,
       <<38944, 20728>>, <<38945, 20729>>, <<38946, 20730>>, <<38947, 20731>>, <<38948, 20732>>,
       <<38949, 20733>>, <<38950, 20734>>, <<38951, 20735>>, <<38952, 20736>>, <<38953, 20737>>,
       <<38954, 20738>>, <<38955, 20739>>, <<38956, 20740>>, <<38957, 20741>>, <<38958, 20742>>,
       <<38959, 20743>>, <<38960, 20744>>, <<38961, 20745>>, <<38962, 20746>>, <<38963, 20747>>,
       <<38964, 20748>>, <<38965, 20749>>, <<38966, 20750>>, <<38967, 20751>>, <<38968, 20752>>,
       <<38969, 20753>>, <<38970, 20754>>, <<38971, 20755>>, <<38972, 20756>>, <<38973, 20757>>,
       <<38974, 20758>>, <<38975, 20759>>, <<38976, 20760>>, <<38977, 20761>>, <<38978, 20762>>,
       <<38979, 20763>>, <<38980, 20764>>, <<38981, 20765>>, <<38982, 20766>>, <<38983, 20767>>,
       <<38984, 20768>>, <<38985, 20769>>, <<38986, 20770>>, <<38987, 20771>>, <<38988, 20772>>,
       <<38989, 20773>>, <<38990, 20774>>, <<38991, 20775>>, <<38992, 20776>>, <<38993, 20777>>,
       <<38994, 20778>>, <<38995, 20779>>, <<38996, 20780>>, <<38997, 20781>>, <<38998, 20782>>,
       <<38999, 20783>>, <<39000, 20784>>, <<39001, 20785>>, <<39002, 20786>>, <<39003, 20787>>,
       <<39004, 20788>>, <<39005, 20789>>, <<39006, 20790>>, <<39007, 20791>>, <<39008, 20792>>,
       <<39009, 20793>>, <<39010, 20794>>, <<39011, 20795>>, <<39012, 20796>>, <<39013, 20797>>,
       <<39014, 20798>>, <<39015, 20799>>, <<39016, 20800>>, <<39017, 20801>>, <<39018, 20802>>,
       <<39019, 20803>>, <<39020, 20804>>, <<39021, 20805>>, <<39022, 20806>>, <<39023, 20901>>,
       <<39024, 20902>>, <<39025, 20903>>, <<39026, 20904>>, <<39027, 20905>>, <<39028, 20906>>,
       <<39029, 15505>>, <<39030, 10171>>, <<39031, 13470>>, <<39032, 21468>>, <<39033, 14994>>,
       <<39034, 14175>>, <<39035, 15181>>, <<39036, 19555>>, <<39037, 14607>>, <<39038, 10779>>,
       <<39039, 10223>>, <<39040, 21469>>, <<39041, 9094>>, <<39042, 14200>>, <<39043, 21470>>,
       <<39044, 15870>>, <<39045, 12459>>, <<39046, 12332>>, <<39047, 13242>>, <<39048, 11703>>,
       <<39049, 21567>>, <<39050, 11359>>, <<39051, 20907>>, <<39052, 21568>>, <<39053, 21569>>,
       <<39054, 20908>>, <<39055, 21570>>, <<39056, 15521>>, <<39057, 13227>>, <<39058, 20909>>,
       <<39059, 14575>>, <<39060, 21571>>, <<39061, 20910>>, <<39062, 15693>>, <<39063, 11913>>,
       <<39064, 14412>>, <<39065, 20911>>, <<39066, 21572>>, <<39067, 21573>>, <<39068, 15349>>,
       <<39069, 10244>>, <<39070, 21574>>, <<39071, 21575>>, <<39072, 10039>>, <<39073, 21576>>,
       <<39074, 21577>>, <<39075, 20912>>, <<39076, 9498>>, <<39077, 21578>>, <<39078, 21579>>,
       <<39079, 13593>>, <<39080, 20913>>, <<39081, 20914>>, <<39082, 20915>>, <<39083, 20916>>,
       <<39084, 20917>>, <<39085, 20918>>, <<39086, 20919>>, <<39087, 20920>>, <<39088, 20921>>,
       <<39089, 20922>>, <<39090, 20923>>, <<39091, 20924>>, <<39092, 20925>>, <<39093, 20926>>,
       <<39094, 20927>>, <<39095, 20928>>, <<39096, 20929>>, <<39097, 20930>>, <<39098, 20931>>,
       <<39099, 20932>>, <<39100, 20933>>, <<39101, 20934>>, <<39102, 20935>>, <<39103, 20936>>,
       <<39104, 20937>>, <<39105, 20938>>, <<39106, 20939>>, <<39107, 20940>>, <<39108, 20941>>,
       <<39109, 20942>>, <<39110, 20943>>, <<39111, 20944>>, <<39112, 20945>>, <<39113, 20946>>,
       <<39114, 20947>>, <<39115, 20948>>, <<39116, 20949>>, <<39117, 20950>>, <<39118, 10427>>,
       <<39119, 20951>>, <<39120, 20952>>, <<39121, 20435>>, <<39122, 20436>>, <<39123, 20437>>,
       <<39124, 20953>>, <<39125, 20438>>, <<39126, 20954>>, <<39127, 20955>>, <<39128, 13220>>,
       <<39129, 20439>>, <<39130, 20440>>, <<39131, 20956>>, <<39132, 20957>>, <<39133, 20958>>,
       <<39134, 10397>>, <<39135, 13985>>, <<39136, 20959>>, <<39137, 20960>>, <<39138, 20961>>,
       <<39139, 20962>>, <<39140, 20963>>, <<39141, 20964>>, <<39142, 20965>>, <<39143, 18550>>,
       <<39144, 22563>>, <<39145, 20966>>, <<39146, 20967>>, <<39147, 20968>>, <<39148, 20969>>,
       <<39149, 20970>>, <<39150, 20971>>, <<39151, 20972>>, <<39152, 20973>>, <<39153, 20974>>,
       <<39154, 20975>>, <<39155, 20976>>, <<39156, 20977>>, <<39157, 20978>>, <<39158, 20979>>,
       <<39159, 20980>>, <<39160, 20981>>, <<39161, 20982>>, <<39162, 20983>>, <<39163, 20984>>,
       <<39164, 20985>>, <<39165, 20986>>, <<39166, 20987>>, <<39167, 20988>>, <<39168, 20989>>,
       <<39169, 20990>>, <<39170, 20991>>, <<39171, 20992>>, <<39172, 20993>>, <<39173, 20994>>,
       <<39174, 20995>>, <<39175, 20996>>, <<39176, 21091>>, <<39177, 21092>>, <<39178, 21093>>,
       <<39179, 21094>>, <<39180, 21095>>, <<39181, 22564>>, <<39182, 21096>>, <<39183, 21097>>,
       <<39184, 9451>>, <<39185, 21098>>, <<39186, 21099>>, <<39187, 21100>>, <<39188, 21101>>,
       <<39189, 21102>>, <<39190, 21103>>, <<39191, 21104>>, <<39192, 21105>>, <<39193, 21106>>,
       <<39194, 21107>>, <<39195, 21108>>, <<39196, 21109>>, <<39197, 21110>>, <<39198, 21111>>,
       <<39199, 21112>>, <<39200, 21113>>, <<39201, 21114>>, <<39202, 21115>>, <<39203, 21116>>,
       <<39204, 21117>>, <<39205, 21118>>, <<39206, 21119>>, <<39207, 21120>>, <<39208, 21121>>,
       <<39209, 21122>>, <<39210, 21123>>, <<39211, 21124>>, <<39212, 21125>>, <<39213, 21126>>,
       <<39214, 22565>>, <<39215, 21127>>, <<39216, 21128>>, <<39217, 21129>>, <<39218, 21130>>,
       <<39219, 21131>>, <<39220, 21132>>, <<39221, 21133>>, <<39222, 21134>>, <<39223, 21135>>,
       <<39224, 21136>>, <<39225, 21137>>, <<39226, 21138>>, <<39227, 21139>>, <<39228, 21140>>,
       <<39229, 21141>>, <<39230, 21142>>, <<39231, 21143>>, <<39232, 21144>>, <<39233, 21145>>,
       <<39234, 21146>>, <<39235, 21147>>, <<39236, 21148>>, <<39237, 21149>>, <<39238, 21150>>,
       <<39239, 21151>>, <<39240, 21152>>, <<39241, 21153>>, <<39242, 21154>>, <<39243, 21155>>,
       <<39244, 21156>>, <<39245, 21157>>, <<39246, 21158>>, <<39247, 21159>>, <<39248, 21160>>,
       <<39249, 21161>>, <<39250, 21162>>, <<39251, 21163>>, <<39252, 22567>>, <<39253, 22566>>,
       <<39254, 21164>>, <<39255, 21165>>, <<39256, 21166>>, <<39257, 21167>>, <<39258, 21168>>,
       <<39259, 21169>>, <<39260, 21170>>, <<39261, 21171>>, <<39262, 21172>>, <<39263, 21173>>,
       <<39264, 21174>>, <<39265, 21175>>, <<39266, 21176>>, <<39267, 18553>>, <<39268, 21177>>,
       <<39269, 11308>>, <<39270, 21178>>, <<39271, 18554>>, <<39272, 18555>>, <<39273, 18556>>,
       <<39274, 18557>>, <<39275, 18558>>, <<39276, 18559>>, <<39277, 10381>>, <<39278, 15577>>,
       <<39279, 11500>>, <<39280, 14012>>, <<39281, 9221>>, <<39282, 14195>>, <<39283, 21179>>,
       <<39284, 18560>>, <<39285, 10258>>, <<39286, 13622>>, <<39287, 18561>>, <<39288, 21180>>,
       <<39289, 21181>>, <<39290, 11536>>, <<39291, 21182>>, <<39292, 9309>>, <<39293, 18562>>,
       <<39294, 21183>>, <<39295, 10252>>, <<39296, 18563>>, <<39297, 12883>>, <<39298, 21184>>,
       <<39299, 21185>>, <<39300, 18564>>, <<39301, 14974>>, <<39302, 10797>>, <<39303, 18565>>,
       <<39304, 12067>>, <<39305, 21186>>, <<39306, 18566>>, <<39307, 9492>>, <<39308, 21281>>,
       <<39309, 18567>>, <<39310, 21282>>, <<39311, 12339>>, <<39312, 18568>>, <<39313, 18569>>,
       <<39314, 12534>>, <<39315, 18570>>, <<39316, 18571>>, <<39317, 18572>>, <<39318, 14021>>,
       <<39319, 16650>>, <<39320, 16885>>, <<39321, 14983>>, <<39322, 21283>>, <<39323, 21284>>,
       <<39324, 21285>>, <<39325, 21286>>, <<39326, 21287>>, <<39327, 21288>>, <<39328, 21289>>,
       <<39329, 21290>>, <<39330, 21291>>, <<39331, 21292>>, <<39332, 21293>>, <<39333, 21191>>,
       <<39334, 21294>>, <<39335, 21295>>, <<39336, 17402>>, <<39337, 21296>>, <<39338, 21297>>,
       <<39339, 21298>>, <<39340, 21299>>, <<39341, 21300>>, <<39342, 21301>>, <<39343, 21302>>,
       <<39344, 21303>>, <<39345, 21304>>, <<39346, 21305>>, <<39347, 21306>>, <<39348, 21307>>,
       <<39349, 21308>>, <<39350, 21309>>, <<39351, 21310>>, <<39352, 21311>>, <<39353, 21312>>,
       <<39354, 21313>>, <<39355, 21314>>, <<39356, 21315>>, <<39357, 21316>>, <<39358, 21317>>,
       <<39359, 21318>>, <<39360, 21319>>, <<39361, 21320>>, <<39362, 21321>>, <<39363, 21322>>,
       <<39364, 21323>>, <<39365, 21324>>, <<39366, 21325>>, <<39367, 21326>>, <<39368, 21327>>,
       <<39369, 21328>>, <<39370, 21329>>, <<39371, 21330>>, <<39372, 21331>>, <<39373, 21332>>,
       <<39374, 21333>>, <<39375, 21334>>, <<39376, 21335>>, <<39377, 21336>>, <<39378, 21337>>,
       <<39379, 21338>>, <<39380, 21339>>, <<39381, 21340>>, <<39382, 21341>>, <<39383, 21342>>,
       <<39384, 21343>>, <<39385, 21344>>, <<39386, 21345>>, <<39387, 21346>>, <<39388, 21347>>,
       <<39389, 21348>>, <<39390, 21349>>, <<39391, 21350>>, <<39392, 21351>>, <<39393, 21352>>,
       <<39394, 21353>>, <<39395, 21354>>, <<39396, 21355>>, <<39397, 21356>>, <<39398, 21357>>,
       <<39399, 21358>>, <<39400, 21359>>, <<39401, 21360>>, <<39402, 21361>>, <<39403, 21362>>,
       <<39404, 21363>>, <<39405, 21364>>, <<39406, 21365>>, <<39407, 21366>>, <<39408, 21367>>,
       <<39409, 21368>>, <<39410, 21369>>, <<39411, 21370>>, <<39412, 21371>>, <<39413, 21372>>,
       <<39414, 21373>>, <<39415, 21374>>, <<39416, 21375>>, <<39417, 21376>>, <<39418, 21471>>,
       <<39419, 21472>>, <<39420, 21473>>, <<39421, 21474>>, <<39422, 21475>>, <<39423, 21476>>,
       <<39424, 21477>>, <<39425, 21478>>, <<39426, 21479>>, <<39427, 21480>>, <<39428, 21481>>,
       <<39429, 21482>>, <<39430, 21483>>, <<39431, 21484>>, <<39432, 21485>>, <<39433, 21486>>,
       <<39434, 21487>>, <<39435, 21488>>, <<39436, 21489>>, <<39437, 21490>>, <<39438, 21491>>,
       <<39439, 21492>>, <<39440, 21493>>, <<39441, 21494>>, <<39442, 21495>>, <<39443, 21496>>,
       <<39444, 21497>>, <<39445, 21498>>, <<39446, 21499>>, <<39447, 21500>>, <<39448, 21501>>,
       <<39449, 21502>>, <<39450, 21503>>, <<39451, 21504>>, <<39452, 21505>>, <<39453, 21506>>,
       <<39454, 21507>>, <<39455, 21508>>, <<39456, 21509>>, <<39457, 21510>>, <<39458, 21511>>,
       <<39459, 21512>>, <<39460, 21513>>, <<39461, 21514>>, <<39462, 21515>>, <<39463, 21516>>,
       <<39464, 21517>>, <<39465, 21518>>, <<39466, 21519>>, <<39467, 21520>>, <<39468, 21521>>,
       <<39469, 21522>>, <<39470, 21523>>, <<39471, 21524>>, <<39472, 21525>>, <<39473, 21526>>,
       <<39474, 21527>>, <<39475, 21528>>, <<39476, 21529>>, <<39477, 21530>>, <<39478, 21531>>,
       <<39479, 21532>>, <<39480, 21533>>, <<39481, 21534>>, <<39482, 21535>>, <<39483, 21536>>,
       <<39484, 21537>>, <<39485, 21538>>, <<39486, 21539>>, <<39487, 21540>>, <<39488, 21541>>,
       <<39489, 21542>>, <<39490, 21543>>, <<39491, 21544>>, <<39492, 21545>>, <<39493, 21546>>,
       <<39494, 21547>>, <<39495, 21548>>, <<39496, 21549>>, <<39497, 21550>>, <<39498, 21551>>,
       <<39499, 21552>>, <<39500, 21553>>, <<39501, 21554>>, <<39502, 21555>>, <<39503, 21556>>,
       <<39504, 21557>>, <<39505, 21558>>, <<39506, 21559>>, <<39507, 21560>>, <<39508, 21561>>,
       <<39509, 21562>>, <<39510, 21563>>, <<39511, 21564>>, <<39512, 21565>>, <<39513, 21566>>,
       <<39514, 21661>>, <<39515, 21662>>, <<39516, 21663>>, <<39517, 21664>>, <<39518, 21665>>,
       <<39519, 21666>>, <<39520, 21667>>, <<39521, 21668>>, <<39522, 21669>>, <<39523, 21670>>,
       <<39524, 21671>>, <<39525, 21672>>, <<39526, 21673>>, <<39527, 21674>>, <<39528, 21675>>,
       <<39529, 21676>>, <<39530, 21677>>, <<39531, 21678>>, <<39532, 12523>>, <<39533, 15872>>,
       <<39534, 14588>>, <<39535, 15313>>, <<39536, 9655>>, <<39537, 13489>>, <<39538, 21679>>,
       <<39539, 9427>>, <<39540, 12477>>, <<39541, 19350>>, <<39542, 13993>>, <<39543, 19351>>,
       <<39544, 19352>>, <<39545, 11738>>, <<39546, 19353>>, <<39547, 16440>>, <<39548, 14589>>,
       <<39549, 19355>>, <<39550, 11367>>, <<39551, 19354>>, <<39552, 19356>>, <<39553, 19357>>,
       <<39554, 12524>>, <<39555, 21680>>, <<39556, 11526>>, <<39557, 19358>>, <<39558, 12516>>,
       <<39559, 10933>>, <<39560, 19359>>, <<39561, 21681>>, <<39562, 19360>>, <<39563, 9646>>,
       <<39564, 15369>>, <<39565, 21682>>, <<39566, 21683>>, <<39567, 11881>>, <<39568, 19361>>,
       <<39569, 13285>>, <<39570, 19362>>, <<39571, 19363>>, <<39572, 21684>>, <<39573, 21685>>,
       <<39574, 19364>>, <<39575, 13219>>, <<39576, 19365>>, <<39577, 21686>>, <<39578, 13783>>,
       <<39579, 19366>>, <<39580, 19367>>, <<39581, 19368>>, <<39582, 19121>>, <<39583, 19369>>,
       <<39584, 19370>>, <<39585, 12512>>, <<39586, 19371>>, <<39587, 19372>>, <<39588, 16318>>,
       <<39589, 19373>>, <<39590, 21687>>, <<39591, 19374>>, <<39592, 10775>>, <<39593, 21688>>,
       <<39594, 21689>>, <<39595, 21690>>, <<39596, 21691>>, <<39597, 21692>>, <<39598, 21693>>,
       <<39599, 21694>>, <<39600, 22543>>, <<39601, 22542>>, <<39602, 21695>>, <<39603, 21696>>,
       <<39604, 21697>>, <<39605, 21698>>, <<39606, 22546>>, <<39607, 22544>>, <<39608, 10927>>,
       <<39609, 21699>>, <<39610, 22547>>, <<39611, 21700>>, <<39612, 22548>>, <<39613, 21701>>,
       <<39614, 21702>>, <<39615, 21703>>, <<39616, 22550>>, <<39617, 22549>>, <<39618, 22552>>,
       <<39619, 21704>>, <<39620, 21705>>, <<39621, 22551>>, <<39622, 21706>>, <<39623, 21707>>,
       <<39624, 21708>>, <<39625, 21709>>, <<39626, 21710>>, <<39627, 22553>>, <<39628, 22554>>,
       <<39629, 21711>>, <<39630, 21712>>, <<39631, 21713>>, <<39632, 21714>>, <<39633, 22555>>,
       <<39634, 21715>>, <<39635, 14228>>, <<39636, 21716>>, <<39637, 21717>>, <<39638, 21718>>,
       <<39639, 21719>>, <<39640, 10609>>, <<39641, 21720>>, <<39642, 21721>>, <<39643, 21722>>,
       <<39644, 21723>>, <<39645, 21724>>, <<39646, 21725>>, <<39647, 22568>>, <<39648, 21726>>,
       <<39649, 22569>>, <<39650, 21727>>, <<39651, 21728>>, <<39652, 21729>>, <<39653, 21730>>,
       <<39654, 22570>>, <<39655, 21731>>, <<39656, 21732>>, <<39657, 21733>>, <<39658, 21734>>,
       <<39659, 22572>>, <<39660, 21735>>, <<39661, 22574>>, <<39662, 21736>>, <<39663, 22571>>,
       <<39664, 21737>>, <<39665, 21738>>, <<39666, 21739>>, <<39667, 21740>>, <<39668, 21741>>,
       <<39669, 21742>>, <<39670, 21743>>, <<39671, 21744>>, <<39672, 21745>>, <<39673, 22575>>,
       <<39674, 21746>>, <<39675, 22573>>, <<39676, 21747>>, <<39677, 21748>>, <<39678, 21749>>,
       <<39679, 21750>>, <<39680, 21751>>, <<39681, 21752>>, <<39682, 21753>>, <<39683, 16491>>,
       <<39684, 21754>>, <<39685, 21755>>, <<39686, 21756>>, <<39687, 21851>>, <<39688, 22576>>,
       <<39689, 21852>>, <<39690, 21853>>, <<39691, 21854>>, <<39692, 21855>>, <<39693, 21856>>,
       <<39694, 21857>>, <<39695, 22577>>, <<39696, 21858>>, <<39697, 21859>>, <<39698, 21860>>,
       <<39699, 22578>>, <<39700, 21861>>, <<39701, 21862>>, <<39702, 21863>>, <<39703, 21864>>,
       <<39704, 21865>>, <<39705, 21866>>, <<39706, 21867>>, <<39707, 21868>>, <<39708, 21869>>,
       <<39709, 21870>>, <<39710, 21871>>, <<39711, 22579>>, <<39712, 21872>>, <<39713, 21873>>,
       <<39714, 21874>>, <<39715, 22580>>, <<39716, 21875>>, <<39717, 21876>>, <<39718, 21877>>,
       <<39719, 21878>>, <<39720, 21879>>, <<39721, 21880>>, <<39722, 21881>>, <<39723, 21882>>,
       <<39724, 21883>>, <<39725, 21884>>, <<39726, 21885>>, <<39727, 17239>>, <<39728, 21886>>,
       <<39729, 21887>>, <<39730, 16636>>, <<39731, 21888>>, <<39732, 21889>>, <<39733, 21890>>,
       <<39734, 21891>>, <<39735, 21892>>, <<39736, 21893>>, <<39737, 21894>>, <<39738, 21895>>,
       <<39739, 19183>>, <<39740, 10813>>, <<39741, 21896>>, <<39742, 21897>>, <<39743, 21898>>,
       <<39744, 21899>>, <<39745, 11969>>, <<39746, 11190>>, <<39747, 22557>>, <<39748, 13245>>,
       <<39749, 22556>>, <<39750, 21900>>, <<39751, 22558>>, <<39752, 22560>>, <<39753, 22559>>,
       <<39754, 21901>>, <<39755, 21902>>, <<39756, 21903>>, <<39757, 22561>>, <<39758, 21904>>,
       <<39759, 14752>>, <<39760, 21905>>, <<39761, 22562>>, <<39762, 21906>>, <<39763, 21907>>,
       <<39764, 12833>>, <<39765, 21908>>, <<39766, 21909>>, <<39767, 21910>>, <<39768, 21911>>,
       <<39769, 21912>>, <<39770, 21913>>, <<39771, 21914>>, <<39772, 21915>>, <<39773, 21916>>,
       <<39774, 21917>>, <<39775, 21918>>, <<39776, 21919>>, <<39777, 21920>>, <<39778, 21921>>,
       <<39779, 21922>>, <<39780, 21923>>, <<39781, 21924>>, <<39782, 21925>>, <<39783, 21926>>,
       <<39784, 21927>>, <<39785, 21928>>, <<39786, 21929>>, <<39787, 21930>>, <<39788, 21931>>,
       <<39789, 21932>>, <<39790, 21933>>, <<39791, 21934>>, <<39792, 21935>>, <<39793, 21936>>,
       <<39794, 21937>>, <<39795, 21938>>, <<39796, 21939>>, <<39797, 21940>>, <<39798, 21941>>,
       <<39799, 21942>>, <<39800, 21943>>, <<39801, 21944>>, <<39802, 21945>>, <<39803, 21946>>,
       <<39804, 22041>>, <<39805, 22042>>, <<39806, 22043>>, <<39807, 22044>>, <<39808, 22045>>,
       <<39809, 22046>>, <<39810, 22047>>, <<39811, 22048>>, <<39812, 22049>>, <<39813, 22050>>,
       <<39814, 22051>>, <<39815, 22052>>, <<39816, 22053>>, <<39817, 22054>>, <<39818, 22055>>,
       <<39819, 22056>>, <<39820, 22057>>, <<39821, 22058>>, <<39822, 22059>>, <<39823, 22060>>,
       <<39824, 22061>>, <<39825, 22062>>, <<39826, 22063>>, <<39827, 22064>>, <<39828, 22065>>,
       <<39829, 22066>>, <<39830, 22067>>, <<39831, 22068>>, <<39832, 22069>>, <<39833, 22070>>,
       <<39834, 22071>>, <<39835, 22072>>, <<39836, 22073>>, <<39837, 22074>>, <<39838, 22075>>,
       <<39839, 22076>>, <<39840, 22077>>, <<39841, 22078>>, <<39842, 22079>>, <<39843, 22080>>,
       <<39844, 22081>>, <<39845, 22082>>, <<39846, 22083>>, <<39847, 22084>>, <<39848, 22085>>,
       <<39849, 22086>>, <<39850, 22087>>, <<39851, 22088>>, <<39852, 22089>>, <<39853, 22090>>,
       <<39854, 22091>>, <<39855, 22092>>, <<39856, 22093>>, <<39857, 22094>>, <<39858, 22095>>,
       <<39859, 22096>>, <<39860, 22097>>, <<39861, 22098>>, <<39862, 22099>>, <<39863, 22100>>,
       <<39864, 22101>>, <<39865, 22102>>, <<39866, 22103>>, <<39867, 22104>>, <<39868, 22105>>,
       <<39869, 22106>>, <<39870, 22107>>, <<39871, 22108>>, <<39872, 22109>>, <<39873, 22110>>,
       <<39874, 22111>>, <<39875, 22112>>, <<39876, 22113>>, <<39877, 22114>>, <<39878, 22115>>,
       <<39879, 22116>>, <<39880, 22117>>, <<39881, 22118>>, <<39882, 22119>>, <<39883, 22120>>,
       <<39884, 22121>>, <<39885, 22122>>, <<39886, 22123>>, <<39887, 22124>>, <<39888, 22125>>,
       <<39889, 22126>>, <<39890, 22127>>, <<39891, 22128>>, <<39892, 22129>>, <<39893, 22130>>,
       <<39894, 22131>>, <<39895, 22132>>, <<39896, 22133>>, <<39897, 22134>>, <<39898, 22135>>,
       <<39899, 22136>>, <<39900, 22231>>, <<39901, 22232>>, <<39902, 22233>>, <<39903, 22234>>,
       <<39904, 22235>>, <<39905, 22236>>, <<39906, 22237>>, <<39907, 22238>>, <<39908, 22239>>,
       <<39909, 22240>>, <<39910, 22241>>, <<39911, 22242>>, <<39912, 22243>>, <<39913, 22244>>,
       <<39914, 22245>>, <<39915, 22246>>, <<39916, 22247>>, <<39917, 22248>>, <<39918, 22249>>,
       <<39919, 22250>>, <<39920, 22251>>, <<39921, 22252>>, <<39922, 22253>>, <<39923, 22254>>,
       <<39924, 22255>>, <<39925, 22256>>, <<39926, 22257>>, <<39927, 22258>>, <<39928, 22259>>,
       <<39929, 22260>>, <<39930, 22261>>, <<39931, 22262>>, <<39932, 22263>>, <<39933, 22264>>,
       <<39934, 22265>>, <<39935, 22266>>, <<39936, 22267>>, <<39937, 22268>>, <<39938, 22269>>,
       <<39939, 22270>>, <<39940, 22271>>, <<39941, 22272>>, <<39942, 22273>>, <<39943, 22274>>,
       <<39944, 22275>>, <<39945, 22276>>, <<39946, 22277>>, <<39947, 22278>>, <<39948, 22279>>,
       <<39949, 22280>>, <<39950, 22281>>, <<39951, 22282>>, <<39952, 22283>>, <<39953, 22284>>,
       <<39954, 22285>>, <<39955, 22286>>, <<39956, 22287>>, <<39957, 22288>>, <<39958, 22289>>,
       <<39959, 22290>>, <<39960, 22291>>, <<39961, 22292>>, <<39962, 22293>>, <<39963, 22294>>,
       <<39964, 22295>>, <<39965, 22296>>, <<39966, 22297>>, <<39967, 22298>>, <<39968, 22299>>,
       <<39969, 22300>>, <<39970, 22301>>, <<39971, 22302>>, <<39972, 22303>>, <<39973, 22304>>,
       <<39974, 22305>>, <<39975, 22306>>, <<39976, 22307>>, <<39977, 22308>>, <<39978, 22309>>,
       <<39979, 22310>>, <<39980, 22311>>, <<39981, 22312>>, <<39982, 22313>>, <<39983, 22314>>,
       <<39984, 22315>>, <<39985, 22316>>, <<39986, 22317>>, <<39987, 22318>>, <<39988, 22319>>,
       <<39989, 22320>>, <<39990, 22321>>, <<39991, 22322>>, <<39992, 22323>>, <<39993, 22324>>,
       <<39994, 22325>>, <<39995, 22326>>, <<39996, 22421>>, <<39997, 22422>>, <<39998, 22423>>,
       <<39999, 22424>>, <<40000, 22425>>, <<40001, 22426>>, <<40002, 22427>>, <<40003, 22428>>,
       <<40004, 22429>>, <<40005, 22430>>, <<40006, 22431>>, <<40007, 22432>>, <<40008, 22433>>,
       <<40009, 22434>>, <<40010, 22435>>, <<40011, 22436>>, <<40012, 22437>>, <<40013, 22438>>,
       <<40014, 22439>>, <<40015, 22440>>, <<40016, 22441>>, <<40017, 22442>>, <<40018, 22443>>,
       <<40019, 22444>>, <<40020, 22445>>, <<40021, 22446>>, <<40022, 22447>>, <<40023, 22448>>,
       <<40024, 22449>>, <<40025, 22450>>, <<40026, 22451>>, <<40027, 22452>>, <<40028, 22453>>,
       <<40029, 22454>>, <<40030, 22455>>, <<40031, 22456>>, <<40032, 22457>>, <<40033, 22458>>,
       <<40034, 22459>>, <<40035, 22460>>, <<40036, 22461>>, <<40037, 22462>>, <<40038, 22463>>,
       <<40039, 22464>>, <<40040, 22465>>, <<40041, 22466>>, <<40042, 22467>>, <<40043, 22468>>,
       <<40044, 22469>>, <<40045, 22470>>, <<40046, 22471>>, <<40047, 22472>>, <<40048, 22473>>,
       <<40049, 22474>>, <<40050, 22475>>, <<40051, 22476>>, <<40052, 22477>>, <<40053, 22478>>,
       <<40054, 22479>>, <<40055, 22480>>, <<40056, 22481>>, <<40057, 22482>>, <<40058, 22483>>,
       <<40059, 22484>>, <<40060, 15743>>, <<40061, 22485>>, <<40062, 22486>>, <<40063, 22373>>,
       <<40064, 22487>>, <<40065, 12465>>, <<40066, 22374>>, <<40067, 22488>>, <<40068, 22489>>,
       <<40069, 22375>>, <<40070, 22376>>, <<40071, 22377>>, <<40072, 22378>>, <<40073, 22490>>,
       <<40074, 22491>>, <<40075, 22380>>, <<40076, 22492>>, <<40077, 9227>>, <<40078, 22381>>,
       <<40079, 22493>>, <<40080, 22382>>, <<40081, 22383>>, <<40082, 22384>>, <<40083, 22494>>,
       <<40084, 22385>>, <<40085, 22386>>, <<40086, 22495>>, <<40087, 22496>>, <<40088, 22497>>,
       <<40089, 22498>>, <<40090, 22387>>, <<40091, 22388>>, <<40092, 14958>>, <<40093, 22499>>,
       <<40094, 22389>>, <<40095, 22390>>, <<40096, 22391>>, <<40097, 22392>>, <<40098, 22393>>,
       <<40099, 22394>>, <<40100, 12146>>, <<40101, 22395>>, <<40102, 22396>>, <<40103, 22397>>,
       <<40104, 22398>>, <<40105, 22399>>, <<40106, 22500>>, <<40107, 22400>>, <<40108, 22501>>,
       <<40109, 22401>>, <<40110, 22402>>, <<40111, 22502>>, <<40112, 22403>>, <<40113, 22404>>,
       <<40114, 22405>>, <<40115, 22406>>, <<40116, 22407>>, <<40117, 22408>>, <<40118, 22409>>,
       <<40119, 22410>>, <<40120, 11694>>, <<40121, 22503>>, <<40122, 22411>>, <<40123, 22412>>,
       <<40124, 22413>>, <<40125, 22414>>, <<40126, 22504>>, <<40127, 22505>>, <<40128, 22506>>,
       <<40129, 22507>>, <<40130, 22508>>, <<40131, 13676>>, <<40132, 22415>>, <<40133, 22416>>,
       <<40134, 22417>>, <<40135, 22418>>, <<40136, 22509>>, <<40137, 22510>>, <<40138, 22419>>,
       <<40139, 22420>>, <<40140, 22517>>, <<40141, 22518>>, <<40142, 22519>>, <<40143, 22520>>,
       <<40144, 22521>>, <<40145, 22511>>, <<40146, 22512>>, <<40147, 22522>>, <<40148, 22523>>,
       <<40149, 22524>>, <<40150, 9294>>, <<40151, 22525>>, <<40152, 22526>>, <<40153, 22527>>,
       <<40154, 22513>>, <<40155, 22514>>, <<40156, 22528>>, <<40157, 22529>>, <<40158, 12315>>,
       <<40159, 22530>>, <<40160, 22515>>, <<40161, 22516>>, <<40162, 22531>>, <<40163, 22611>>,
       <<40164, 22612>>, <<40165, 22613>>, <<40166, 22614>>, <<40167, 22615>>, <<40168, 22616>>,
       <<40169, 22617>>, <<40170, 22618>>, <<40171, 22619>>, <<40172, 22620>>, <<40173, 22621>>,
       <<40174, 22622>>, <<40175, 22623>>, <<40176, 22624>>, <<40177, 22625>>, <<40178, 22626>>,
       <<40179, 22627>>, <<40180, 22628>>, <<40181, 22629>>, <<40182, 22630>>, <<40183, 22631>>,
       <<40184, 22632>>, <<40185, 22633>>, <<40186, 22634>>, <<40187, 22635>>, <<40188, 22636>>,
       <<40189, 22637>>, <<40190, 22638>>, <<40191, 22639>>, <<40192, 22640>>, <<40193, 22641>>,
       <<40194, 22642>>, <<40195, 22643>>, <<40196, 22644>>, <<40197, 22645>>, <<40198, 22646>>,
       <<40199, 22647>>, <<40200, 22648>>, <<40201, 22649>>, <<40202, 22650>>, <<40203, 22651>>,
       <<40204, 22652>>, <<40205, 22653>>, <<40206, 22654>>, <<40207, 22655>>, <<40208, 22656>>,
       <<40209, 22657>>, <<40210, 22658>>, <<40211, 22659>>, <<40212, 22660>>, <<40213, 22661>>,
       <<40214, 22662>>, <<40215, 22663>>, <<40216, 22664>>, <<40217, 22665>>, <<40218, 22666>>,
       <<40219, 22667>>, <<40220, 22668>>, <<40221, 22669>>, <<40222, 22670>>, <<40223, 22671>>,
       <<40224, 22672>>, <<40225, 22673>>, <<40226, 22674>>, <<40227, 22675>>, <<40228, 22676>>,
       <<40229, 22677>>, <<40230, 22678>>, <<40231, 22679>>, <<40232, 22680>>, <<40233, 22681>>,
       <<40234, 22682>>, <<40235, 22683>>, <<40236, 22684>>, <<40237, 22685>>, <<40238, 22686>>,
       <<40239, 22687>>, <<40240, 22688>>, <<40241, 22689>>, <<40242, 22690>>, <<40243, 22691>>,
       <<40244, 22692>>, <<40245, 22693>>, <<40246, 22694>>, <<40247, 22695>>, <<40248, 22696>>,
       <<40249, 22697>>, <<40250, 22698>>, <<40251, 22699>>, <<40252, 22700>>, <<40253, 22701>>,
       <<40254, 22702>>, <<40255, 22703>>, <<40256, 22704>>, <<40257, 22705>>, <<40258, 22706>>,
       <<40259, 22801>>, <<40260, 22802>>, <<40261, 22803>>, <<40262, 22804>>, <<40263, 22805>>,
       <<40264, 22806>>, <<40265, 22807>>, <<40266, 22808>>, <<40267, 22809>>, <<40268, 22810>>,
       <<40269, 22811>>, <<40270, 22812>>, <<40271, 22813>>, <<40272, 22814>>, <<40273, 22815>>,
       <<40274, 22816>>, <<40275, 22817>>, <<40276, 22818>>, <<40277, 22819>>, <<40278, 22820>>,
       <<40279, 22821>>, <<40280, 22822>>, <<40281, 22823>>, <<40282, 22824>>, <<40283, 22825>>,
       <<40284, 22826>>, <<40285, 22827>>, <<40286, 22828>>, <<40287, 22829>>, <<40288, 22830>>,
       <<40289, 22831>>, <<40290, 22832>>, <<40291, 22833>>, <<40292, 22834>>, <<40293, 22835>>,
       <<40294, 22836>>, <<40295, 22837>>, <<40296, 22838>>, <<40297, 22839>>, <<40298, 22840>>,
       <<40299, 22841>>, <<40300, 22842>>, <<40301, 22843>>, <<40302, 22844>>, <<40303, 22845>>,
       <<40304, 22846>>, <<40305, 22847>>, <<40306, 22848>>, <<40307, 22849>>, <<40308, 22850>>,
       <<40309, 22851>>, <<40310, 22852>>, <<40311, 22853>>, <<40312, 22854>>, <<40313, 22855>>,
       <<40314, 22856>>, <<40315, 22857>>, <<40316, 22858>>, <<40317, 22859>>, <<40318, 22860>>,
       <<40319, 22861>>, <<40320, 22862>>, <<40321, 22863>>, <<40322, 22864>>, <<40323, 22865>>,
       <<40324, 22866>>, <<40325, 22867>>, <<40326, 22868>>, <<40327, 22869>>, <<40328, 22870>>,
       <<40329, 22871>>, <<40330, 22872>>, <<40331, 22873>>, <<40332, 22874>>, <<40333, 22875>>,
       <<40334, 22876>>, <<40335, 22877>>, <<40336, 22878>>, <<40337, 22879>>, <<40338, 22880>>,
       <<40339, 22881>>, <<40340, 22882>>, <<40341, 22883>>, <<40342, 22884>>, <<40343, 22885>>,
       <<40344, 22886>>, <<40345, 22887>>, <<40346, 22888>>, <<40347, 22889>>, <<40348, 22890>>,
       <<40349, 22891>>, <<40350, 22892>>, <<40351, 22893>>, <<40352, 22894>>, <<40353, 22895>>,
       <<40354, 22896>>, <<40355, 22991>>, <<40356, 22992>>, <<40357, 22993>>, <<40358, 22994>>,
       <<40359, 22995>>, <<40360, 22996>>, <<40361, 22997>>, <<40362, 22998>>, <<40363, 22999>>,
       <<40364, 23000>>, <<40365, 23001>>, <<40366, 23002>>, <<40367, 23003>>, <<40368, 23004>>,
       <<40369, 23005>>, <<40370, 23006>>, <<40371, 23007>>, <<40372, 23008>>, <<40373, 23009>>,
       <<40374, 23010>>, <<40375, 23011>>, <<40376, 23012>>, <<40377, 23013>>, <<40378, 23014>>,
       <<40379, 23015>>, <<40380, 23016>>, <<40381, 23017>>, <<40382, 23018>>, <<40383, 23019>>,
       <<40384, 23020>>, <<40385, 23021>>, <<40386, 23022>>, <<40387, 23023>>, <<40388, 23024>>,
       <<40389, 23025>>, <<40390, 23026>>, <<40391, 23027>>, <<40392, 23028>>, <<40393, 23029>>,
       <<40394, 23030>>, <<40395, 23031>>, <<40396, 23032>>, <<40397, 23033>>, <<40398, 23034>>,
       <<40399, 23035>>, <<40400, 23036>>, <<40401, 23037>>, <<40402, 23038>>, <<40403, 23039>>,
       <<40404, 23040>>, <<40405, 23041>>, <<40406, 23042>>, <<40407, 23043>>, <<40408, 23044>>,
       <<40409, 23045>>, <<40410, 23046>>, <<40411, 23047>>, <<40412, 23048>>, <<40413, 23049>>,
       <<40414, 23050>>, <<40415, 23051>>, <<40416, 23052>>, <<40417, 23053>>, <<40418, 23054>>,
       <<40419, 23055>>, <<40420, 23056>>, <<40421, 23057>>, <<40422, 23058>>, <<40423, 23059>>,
       <<40424, 23060>>, <<40425, 23061>>, <<40426, 23062>>, <<40427, 23063>>, <<40428, 23064>>,
       <<40429, 23065>>, <<40430, 23066>>, <<40431, 23067>>, <<40432, 23068>>, <<40433, 23069>>,
       <<40434, 23070>>, <<40435, 23071>>, <<40436, 23072>>, <<40437, 23073>>, <<40438, 23074>>,
       <<40439, 23075>>, <<40440, 23076>>, <<40441, 23077>>, <<40442, 23078>>, <<40443, 23079>>,
       <<40444, 23080>>, <<40445, 23081>>, <<40446, 23082>>, <<40447, 23083>>, <<40448, 23084>>,
       <<40449, 23085>>, <<40450, 23086>>, <<40451, 23181>>, <<40452, 23182>>, <<40453, 23183>>,
       <<40454, 23184>>, <<40455, 23185>>, <<40456, 23186>>, <<40457, 23187>>, <<40458, 23188>>,
       <<40459, 23189>>, <<40460, 23190>>, <<40461, 23191>>, <<40462, 23192>>, <<40463, 23193>>,
       <<40464, 23194>>, <<40465, 23195>>, <<40466, 23196>>, <<40467, 23197>>, <<40468, 23198>>,
       <<40469, 23199>>, <<40470, 23200>>, <<40471, 23201>>, <<40472, 23202>>, <<40473, 23203>>,
       <<40474, 23204>>, <<40475, 23205>>, <<40476, 23206>>, <<40477, 23207>>, <<40478, 23208>>,
       <<40479, 12907>>, <<40480, 21201>>, <<40481, 11312>>, <<40482, 21202>>, <<40483, 12725>>,
       <<40484, 23209>>, <<40485, 13040>>, <<40486, 15323>>, <<40487, 23210>>, <<40488, 21203>>,
       <<40489, 21204>>, <<40490, 21205>>, <<40491, 21206>>, <<40492, 21207>>, <<40493, 15324>>,
       <<40494, 23211>>, <<40495, 15372>>, <<40496, 23212>>, <<40497, 21209>>, <<40498, 21208>>,
       <<40499, 15873>>, <<40500, 23213>>, <<40501, 14586>>, <<40502, 21210>>, <<40503, 21212>>,
       <<40504, 21211>>, <<40505, 21213>>, <<40506, 21214>>, <<40507, 23214>>, <<40508, 23215>>,
       <<40509, 10621>>, <<40510, 21215>>, <<40511, 10998>>, <<40512, 23216>>, <<40513, 21216>>,
       <<40514, 21217>>, <<40515, 11759>>, <<40516, 21218>>, <<40517, 10242>>, <<40518, 21219>>,
       <<40519, 21220>>, <<40520, 21221>>, <<40521, 21222>>, <<40522, 13607>>, <<40523, 21223>>,
       <<40524, 21224>>, <<40525, 23217>>, <<40526, 21225>>, <<40527, 13100>>, <<40528, 23218>>,
       <<40529, 21226>>, <<40530, 23219>>, <<40531, 23220>>, <<40532, 23221>>, <<40533, 21227>>,
       <<40534, 23222>>, <<40535, 21228>>, <<40536, 22545>>, <<40537, 23223>>, <<40538, 21229>>,
       <<40539, 21230>>, <<40540, 21231>>, <<40541, 23224>>, <<40542, 21232>>, <<40543, 23225>>,
       <<40544, 23226>>, <<40545, 23227>>, <<40546, 23228>>, <<40547, 21233>>, <<40548, 10981>>,
       <<40549, 23229>>, <<40550, 21234>>, <<40551, 21235>>, <<40552, 21236>>, <<40553, 21237>>,
       <<40554, 21238>>, <<40555, 21239>>, <<40556, 21240>>, <<40557, 21242>>, <<40558, 23230>>,
       <<40559, 23231>>, <<40560, 15681>>, <<40561, 21241>>, <<40562, 23232>>, <<40563, 21243>>,
       <<40564, 23233>>, <<40565, 23234>>, <<40566, 23235>>, <<40567, 23236>>, <<40568, 23237>>,
       <<40569, 23238>>, <<40570, 23239>>, <<40571, 23240>>, <<40572, 23241>>, <<40573, 23242>>,
       <<40574, 22162>>, <<40575, 12471>>, <<40576, 23243>>, <<40577, 23244>>, <<40578, 22584>>,
       <<40579, 23245>>, <<40580, 23246>>, <<40581, 23247>>, <<40582, 23248>>, <<40583, 22585>>,
       <<40584, 22586>>, <<40585, 23249>>, <<40586, 23250>>, <<40587, 22587>>, <<40588, 23251>>,
       <<40589, 23252>>, <<40590, 23253>>, <<40591, 23254>>, <<40592, 23255>>, <<40593, 23256>>,
       <<40594, 22588>>, <<40595, 12466>>, <<40596, 23257>>, <<40597, 23258>>, <<40598, 23259>>,
       <<40599, 23260>>, <<40600, 23261>>, <<40601, 23262>>, <<40602, 23263>>, <<40603, 23264>>,
       <<40604, 23265>>, <<40605, 22590>>, <<40606, 23266>>, <<40607, 22591>>, <<40608, 23267>>,
       <<40609, 23268>>, <<40610, 23269>>, <<40611, 23270>>, <<40612, 23271>>, <<40613, 23272>>,
       <<40614, 12529>>, <<40615, 23273>>, <<40616, 23274>>, <<40617, 23275>>, <<40618, 23276>>,
       <<40619, 23371>>, <<40620, 23372>>, <<40621, 23373>>, <<40622, 23374>>, <<40623, 23375>>,
       <<40624, 23376>>, <<40625, 23377>>, <<40626, 23378>>, <<40627, 23379>>, <<40628, 22026>>,
       <<40629, 23380>>, <<40630, 23381>>, <<40631, 23382>>, <<40632, 22025>>, <<40633, 23383>>,
       <<40634, 23384>>, <<40635, 12519>>, <<40636, 23385>>, <<40637, 22581>>, <<40638, 22582>>,
       <<40639, 23386>>, <<40640, 23387>>, <<40641, 23388>>, <<40642, 23389>>, <<40643, 23390>>,
       <<40644, 11154>>, <<40645, 23391>>, <<40646, 23392>>, <<40647, 23393>>, <<40648, 23394>>,
       <<40649, 16884>>, <<40650, 23395>>, <<40651, 23396>>, <<40652, 23397>>, <<40653, 14048>>,
       <<40654, 12138>>, <<40655, 21190>>, <<40656, 23398>>, <<40657, 10984>>, <<40658, 23399>>,
       <<40659, 23400>>, <<40660, 13409>>, <<40661, 23401>>, <<40662, 23402>>, <<40663, 23403>>,
       <<40664, 12838>>, <<40665, 23404>>, <<40666, 23405>>, <<40667, 22592>>, <<40668, 22593>>,
       <<40669, 22594>>, <<40670, 23406>>, <<40671, 22596>>, <<40672, 22595>>, <<40673, 23407>>,
       <<40674, 22597>>, <<40675, 23408>>, <<40676, 23409>>, <<40677, 22600>>, <<40678, 23410>>,
       <<40679, 22599>>, <<40680, 23411>>, <<40681, 22598>>, <<40682, 22601>>, <<40683, 23412>>,
       <<40684, 23413>>, <<40685, 23414>>, <<40686, 23415>>, <<40687, 22602>>, <<40688, 23416>>,
       <<40689, 23417>>, <<40690, 23418>>, <<40691, 23419>>, <<40692, 23420>>, <<40693, 23421>>,
       <<40694, 23422>>, <<40695, 23423>>, <<40696, 23424>>, <<40697, 20689>>, <<40698, 23425>>,
       <<40699, 20690>>, <<40700, 20691>>, <<40701, 23426>>, <<40702, 22354>>, <<40703, 23427>>,
       <<40704, 23428>>, <<40705, 23429>>, <<40706, 23430>>, <<40707, 23431>>, <<40708, 23432>>,
       <<40709, 23433>>, <<40710, 23434>>, <<40711, 23435>>, <<40712, 23436>>, <<40713, 23437>>,
       <<40714, 23438>>, <<40715, 22355>>, <<40716, 23439>>, <<40717, 22356>>, <<40718, 10172>>,
       <<40719, 23440>>, <<40720, 16656>>, <<40721, 23441>>, <<40722, 23442>>, <<40723, 10772>>,
       <<40724, 23443>>, <<40725, 23444>>, <<40726, 23445>>, <<40727, 16653>>, <<40728, 23446>>,
       <<40729, 17403>>, <<40730, 23447>>, <<40731, 23448>>, <<40732, 23449>>, <<40733, 23450>>,
       <<40734, 23451>>, <<40735, 23452>>, <<40736, 14049>>, <<40737, 23453>>, <<40738, 22603>>,
       <<40739, 23454>>, <<40740, 23455>>, <<40741, 23456>>, <<40742, 23457>>, <<40743, 23458>>,
       <<40744, 23459>>, <<40745, 23460>>, <<40746, 23461>>, <<40747, 23462>>, <<40748, 22604>>,
       <<40749, 23463>>, <<40750, 23464>>, <<40751, 22605>>, <<40752, 23465>>, <<40753, 23466>>,
       <<40754, 23561>>, <<40755, 23562>>, <<40756, 23563>>, <<40757, 23564>>, <<40758, 23565>>,
       <<40759, 22607>>, <<40760, 23566>>, <<40761, 22606>>, <<40762, 23567>>, <<40763, 9255>>,
       <<40764, 23568>>, <<40765, 22608>>, <<40766, 22609>>, <<40767, 23569>>, <<40768, 23570>>,
       <<40769, 23571>>, <<40770, 23572>>, <<40771, 23573>>, <<40772, 22610>>, <<40773, 23574>>,
       <<40774, 23575>>, <<40775, 23576>>, <<40776, 23577>>, <<40777, 23578>>, <<40778, 23579>>,
       <<40779, 23580>>, <<40780, 23581>>, <<40781, 23582>>, <<40782, 23583>>, <<40783, 23584>>,
       <<40784, 13281>>, <<40785, 20446>>, <<40786, 23585>>, <<40787, 23586>>, <<40788, 23587>>,
       <<40789, 23588>>, <<40790, 23589>>, <<40791, 23590>>, <<40792, 23591>>, <<40793, 23592>>,
       <<40794, 23593>>, <<40795, 23594>>, <<40796, 23595>>, <<40797, 23596>>, <<40798, 23597>>,
       <<40799, 23598>>, <<40800, 23599>>, <<40801, 23600>>, <<40802, 23601>>, <<40803, 23602>>,
       <<40804, 23603>>, <<40805, 23604>>, <<40806, 23605>>, <<40807, 23606>>, <<40808, 23607>>,
       <<40809, 23608>>, <<40810, 23609>>, <<40811, 23610>>, <<40812, 23611>>, <<40813, 23612>>,
       <<40814, 23613>>, <<40815, 23614>>, <<40816, 23615>>, <<40817, 23616>>, <<40818, 23617>>,
       <<40819, 23618>>, <<40820, 23619>>, <<40821, 23620>>, <<40822, 23621>>, <<40823, 23622>>,
       <<40824, 23623>>, <<40825, 23624>>, <<40826, 23625>>, <<40827, 23626>>, <<40828, 23627>>,
       <<40829, 23628>>, <<40830, 23629>>, <<40831, 9657>>, <<40832, 22345>>, <<40833, 23630>>,
       <<40834, 23631>>, <<40835, 22346>>, <<40836, 12324>>, <<40837, 22347>>, <<40838, 22348>>,
       <<40839, 22349>>, <<40840, 22350>>, <<40841, 22351>>, <<40842, 22352>>, <<40843, 13589>>,
       <<40844, 22353>>, <<40845, 23632>>, <<40846, 23633>>, <<40847, 23634>>, <<40848, 23635>>,
       <<40849, 23636>>, <<40850, 23637>>, <<40851, 23638>>, <<40852, 23639>>, <<40853, 23640>>,
       <<40854, 23641>>, <<40855, 23642>>, <<40856, 23643>>, <<40857, 12346>>, <<40858, 10744>>,
       <<40859, 20688>>, <<40860, 23644>>, <<40861, 23645>>, <<40862, 23646>>, <<40863, 10810>>,
       <<40864, 16879>>, <<40865, 23647>>, <<40866, 23648>>, <<40867, 23649>>, <<40868, 23650>>,
       <<40869, 23651>>, <<57344, 7887>>, <<57345, 7888>>, <<57346, 7889>>, <<57347, 7890>>,
       <<57348, 7891>>, <<57349, 7892>>, <<57350, 7893>>, <<57351, 7894>>, <<57352, 7895>>, <<57353, 7896>>,
       <<57354, 7897>>, <<57355, 7898>>, <<57356, 7899>>, <<57357, 7900>>, <<57358, 7901>>, <<57359, 7902>>,
       <<57360, 7903>>, <<57361, 7904>>, <<57362, 7905>>, <<57363, 7906>>, <<57364, 7907>>, <<57365, 7908>>,
       <<57366, 7909>>, <<57367, 7910>>, <<57368, 7911>>, <<57369, 7912>>, <<57370, 7913>>, <<57371, 7914>>,
       <<57372, 7915>>, <<57373, 7916>>, <<57374, 7917>>, <<57375, 7918>>, <<57376, 7919>>, <<57377, 7920>>,
       <<57378, 7921>>, <<57379, 7922>>, <<57380, 7923>>, <<57381, 7924>>, <<57382, 7925>>, <<57383, 7926>>,
       <<57384, 7927>>, <<57385, 7928>>, <<57386, 7929>>, <<57387, 7930>>, <<57388, 7931>>, <<57389, 7932>>,
       <<57390, 7933>>, <<57391, 7934>>, <<57392, 7935>>, <<57393, 7936>>, <<57394, 7937>>, <<57395, 7938>>,
       <<57396, 7939>>, <<57397, 7940>>, <<57398, 7941>>, <<57399, 7942>>, <<57400, 7943>>, <<57401, 7944>>,
       <<57402, 7945>>, <<57403, 7946>>, <<57404, 7947>>, <<57405, 7948>>, <<57406, 7949>>, <<57407, 7950>>,
       <<57408, 7951>>, <<57409, 7952>>, <<57410, 7953>>, <<57411, 7954>>, <<57412, 7955>>, <<57413, 7956>>,
       <<57414, 7957>>, <<57415, 7958>>, <<57416, 7959>>, <<57417, 7960>>, <<57418, 7961>>, <<57419, 7962>>,
       <<57420, 7963>>, <<57421, 7964>>, <<57422, 7965>>, <<57423, 7966>>, <<57424, 7967>>, <<57425, 7968>>,
       <<57426, 7969>>, <<57427, 7970>>, <<57428, 7971>>, <<57429, 7972>>, <<57430, 7973>>, <<57431, 7974>>,
       <<57432, 7975>>, <<57433, 7976>>, <<57434, 7977>>, <<57435, 7978>>, <<57436, 7979>>, <<57437, 7980>>,
       <<57438, 8077>>, <<57439, 8078>>, <<57440, 8079>>, <<57441, 8080>>, <<57442, 8081>>, <<57443, 8082>>,
       <<57444, 8083>>, <<57445, 8084>>, <<57446, 8085>>, <<57447, 8086>>, <<57448, 8087>>, <<57449, 8088>>,
       <<57450, 8089>>, <<57451, 8090>>, <<57452, 8091>>, <<57453, 8092>>, <<57454, 8093>>, <<57455, 8094>>,
       <<57456, 8095>>, <<57457, 8096>>, <<57458, 8097>>, <<57459, 8098>>, <<57460, 8099>>, <<57461, 8100>>,
       <<57462, 8101>>, <<57463, 8102>>, <<57464, 8103>>, <<57465, 8104>>, <<57466, 8105>>, <<57467, 8106>>,
       <<57468, 8107>>, <<57469, 8108>>, <<57470, 8109>>, <<57471, 8110>>, <<57472, 8111>>, <<57473, 8112>>,
       <<57474, 8113>>, <<57475, 8114>>, <<57476, 8115>>, <<57477, 8116>>, <<57478, 8117>>, <<57479, 8118>>,
       <<57480, 8119>>, <<57481, 8120>>, <<57482, 8121>>, <<57483, 8122>>, <<57484, 8123>>, <<57485, 8124>>,
       <<57486, 8125>>, <<57487, 8126>>, <<57488, 8127>>, <<57489, 8128>>, <<57490, 8129>>, <<57491, 8130>>,
       <<57492, 8131>>, <<57493, 8132>>, <<57494, 8133>>, <<57495, 8134>>, <<57496, 8135>>, <<57497, 8136>>,
       <<57498, 8137>>, <<57499, 8138>>, <<57500, 8139>>, <<57501, 8140>>, <<57502, 8141>>, <<57503, 8142>>,
       <<57504, 8143>>, <<57505, 8144>>, <<57506, 8145>>, <<57507, 8146>>, <<57508, 8147>>, <<57509, 8148>>,
       <<57510, 8149>>, <<57511, 8150>>, <<57512, 8151>>, <<57513, 8152>>, <<57514, 8153>>, <<57515, 8154>>,
       <<57516, 8155>>, <<57517, 8156>>, <<57518, 8157>>, <<57519, 8158>>, <<57520, 8159>>, <<57521, 8160>>,
       <<57522, 8161>>, <<57523, 8162>>, <<57524, 8163>>, <<57525, 8164>>, <<57526, 8165>>, <<57527, 8166>>,
       <<57528, 8167>>, <<57529, 8168>>, <<57530, 8169>>, <<57531, 8170>>, <<57532, 8267>>, <<57533, 8268>>,
       <<57534, 8269>>, <<57535, 8270>>, <<57536, 8271>>, <<57537, 8272>>, <<57538, 8273>>, <<57539, 8274>>,
       <<57540, 8275>>, <<57541, 8276>>, <<57542, 8277>>, <<57543, 8278>>, <<57544, 8279>>, <<57545, 8280>>,
       <<57546, 8281>>, <<57547, 8282>>, <<57548, 8283>>, <<57549, 8284>>, <<57550, 8285>>, <<57551, 8286>>,
       <<57552, 8287>>, <<57553, 8288>>, <<57554, 8289>>, <<57555, 8290>>, <<57556, 8291>>, <<57557, 8292>>,
       <<57558, 8293>>, <<57559, 8294>>, <<57560, 8295>>, <<57561, 8296>>, <<57562, 8297>>, <<57563, 8298>>,
       <<57564, 8299>>, <<57565, 8300>>, <<57566, 8301>>, <<57567, 8302>>, <<57568, 8303>>, <<57569, 8304>>,
       <<57570, 8305>>, <<57571, 8306>>, <<57572, 8307>>, <<57573, 8308>>, <<57574, 8309>>, <<57575, 8310>>,
       <<57576, 8311>>, <<57577, 8312>>, <<57578, 8313>>, <<57579, 8314>>, <<57580, 8315>>, <<57581, 8316>>,
       <<57582, 8317>>, <<57583, 8318>>, <<57584, 8319>>, <<57585, 8320>>, <<57586, 8321>>, <<57587, 8322>>,
       <<57588, 8323>>, <<57589, 8324>>, <<57590, 8325>>, <<57591, 8326>>, <<57592, 8327>>, <<57593, 8328>>,
       <<57594, 8329>>, <<57595, 8330>>, <<57596, 8331>>, <<57597, 8332>>, <<57598, 8333>>, <<57599, 8334>>,
       <<57600, 8335>>, <<57601, 8336>>, <<57602, 8337>>, <<57603, 8338>>, <<57604, 8339>>, <<57605, 8340>>,
       <<57606, 8341>>, <<57607, 8342>>, <<57608, 8343>>, <<57609, 8344>>, <<57610, 8345>>, <<57611, 8346>>,
       <<57612, 8347>>, <<57613, 8348>>, <<57614, 8349>>, <<57615, 8350>>, <<57616, 8351>>, <<57617, 8352>>,
       <<57618, 8353>>, <<57619, 8354>>, <<57620, 8355>>, <<57621, 8356>>, <<57622, 8357>>, <<57623, 8358>>,
       <<57624, 8359>>, <<57625, 8360>>, <<57626, 8457>>, <<57627, 8458>>, <<57628, 8459>>, <<57629, 8460>>,
       <<57630, 8461>>, <<57631, 8462>>, <<57632, 8463>>, <<57633, 8464>>, <<57634, 8465>>, <<57635, 8466>>,
       <<57636, 8467>>, <<57637, 8468>>, <<57638, 8469>>, <<57639, 8470>>, <<57640, 8471>>, <<57641, 8472>>,
       <<57642, 8473>>, <<57643, 8474>>, <<57644, 8475>>, <<57645, 8476>>, <<57646, 8477>>, <<57647, 8478>>,
       <<57648, 8479>>, <<57649, 8480>>, <<57650, 8481>>, <<57651, 8482>>, <<57652, 8483>>, <<57653, 8484>>,
       <<57654, 8485>>, <<57655, 8486>>, <<57656, 8487>>, <<57657, 8488>>, <<57658, 8489>>, <<57659, 8490>>,
       <<57660, 8491>>, <<57661, 8492>>, <<57662, 8493>>, <<57663, 8494>>, <<57664, 8495>>, <<57665, 8496>>,
       <<57666, 8497>>, <<57667, 8498>>, <<57668, 8499>>, <<57669, 8500>>, <<57670, 8501>>, <<57671, 8502>>,
       <<57672, 8503>>, <<57673, 8504>>, <<57674, 8505>>, <<57675, 8506>>, <<57676, 8507>>, <<57677, 8508>>,
       <<57678, 8509>>, <<57679, 8510>>, <<57680, 8511>>, <<57681, 8512>>, <<57682, 8513>>, <<57683, 8514>>,
       <<57684, 8515>>, <<57685, 8516>>, <<57686, 8517>>, <<57687, 8518>>, <<57688, 8519>>, <<57689, 8520>>,
       <<57690, 8521>>, <<57691, 8522>>, <<57692, 8523>>, <<57693, 8524>>, <<57694, 8525>>, <<57695, 8526>>,
       <<57696, 8527>>, <<57697, 8528>>, <<57698, 8529>>, <<57699, 8530>>, <<57700, 8531>>, <<57701, 8532>>,
       <<57702, 8533>>, <<57703, 8534>>, <<57704, 8535>>, <<57705, 8536>>, <<57706, 8537>>, <<57707, 8538>>,
       <<57708, 8539>>, <<57709, 8540>>, <<57710, 8541>>, <<57711, 8542>>, <<57712, 8543>>, <<57713, 8544>>,
       <<57714, 8545>>, <<57715, 8546>>, <<57716, 8547>>, <<57717, 8548>>, <<57718, 8549>>, <<57719, 8550>>,
       <<57720, 8647>>, <<57721, 8648>>, <<57722, 8649>>, <<57723, 8650>>, <<57724, 8651>>, <<57725, 8652>>,
       <<57726, 8653>>, <<57727, 8654>>, <<57728, 8655>>, <<57729, 8656>>, <<57730, 8657>>, <<57731, 8658>>,
       <<57732, 8659>>, <<57733, 8660>>, <<57734, 8661>>, <<57735, 8662>>, <<57736, 8663>>, <<57737, 8664>>,
       <<57738, 8665>>, <<57739, 8666>>, <<57740, 8667>>, <<57741, 8668>>, <<57742, 8669>>, <<57743, 8670>>,
       <<57744, 8671>>, <<57745, 8672>>, <<57746, 8673>>, <<57747, 8674>>, <<57748, 8675>>, <<57749, 8676>>,
       <<57750, 8677>>, <<57751, 8678>>, <<57752, 8679>>, <<57753, 8680>>, <<57754, 8681>>, <<57755, 8682>>,
       <<57756, 8683>>, <<57757, 8684>>, <<57758, 8685>>, <<57759, 8686>>, <<57760, 8687>>, <<57761, 8688>>,
       <<57762, 8689>>, <<57763, 8690>>, <<57764, 8691>>, <<57765, 8692>>, <<57766, 8693>>, <<57767, 8694>>,
       <<57768, 8695>>, <<57769, 8696>>, <<57770, 8697>>, <<57771, 8698>>, <<57772, 8699>>, <<57773, 8700>>,
       <<57774, 8701>>, <<57775, 8702>>, <<57776, 8703>>, <<57777, 8704>>, <<57778, 8705>>, <<57779, 8706>>,
       <<57780, 8707>>, <<57781, 8708>>, <<57782, 8709>>, <<57783, 8710>>, <<57784, 8711>>, <<57785, 8712>>,
       <<57786, 8713>>, <<57787, 8714>>, <<57788, 8715>>, <<57789, 8716>>, <<57790, 8717>>, <<57791, 8718>>,
       <<57792, 8719>>, <<57793, 8720>>, <<57794, 8721>>, <<57795, 8722>>, <<57796, 8723>>, <<57797, 8724>>,
       <<57798, 8725>>, <<57799, 8726>>, <<57800, 8727>>, <<57801, 8728>>, <<57802, 8729>>, <<57803, 8730>>,
       <<57804, 8731>>, <<57805, 8732>>, <<57806, 8733>>, <<57807, 8734>>, <<57808, 8735>>, <<57809, 8736>>,
       <<57810, 8737>>, <<57811, 8738>>, <<57812, 8739>>, <<57813, 8740>>, <<57814, 8837>>, <<57815, 8838>>,
       <<57816, 8839>>, <<57817, 8840>>, <<57818, 8841>>, <<57819, 8842>>, <<57820, 8843>>, <<57821, 8844>>,
       <<57822, 8845>>, <<57823, 8846>>, <<57824, 8847>>, <<57825, 8848>>, <<57826, 8849>>, <<57827, 8850>>,
       <<57828, 8851>>, <<57829, 8852>>, <<57830, 8853>>, <<57831, 8854>>, <<57832, 8855>>, <<57833, 8856>>,
       <<57834, 8857>>, <<57835, 8858>>, <<57836, 8859>>, <<57837, 8860>>, <<57838, 8861>>, <<57839, 8862>>,
       <<57840, 8863>>, <<57841, 8864>>, <<57842, 8865>>, <<57843, 8866>>, <<57844, 8867>>, <<57845, 8868>>,
       <<57846, 8869>>, <<57847, 8870>>, <<57848, 8871>>, <<57849, 8872>>, <<57850, 8873>>, <<57851, 8874>>,
       <<57852, 8875>>, <<57853, 8876>>, <<57854, 8877>>, <<57855, 8878>>, <<57856, 8879>>, <<57857, 8880>>,
       <<57858, 8881>>, <<57859, 8882>>, <<57860, 8883>>, <<57861, 8884>>, <<57862, 8885>>, <<57863, 8886>>,
       <<57864, 8887>>, <<57865, 8888>>, <<57866, 8889>>, <<57867, 8890>>, <<57868, 8891>>, <<57869, 8892>>,
       <<57870, 8893>>, <<57871, 8894>>, <<57872, 8895>>, <<57873, 8896>>, <<57874, 8897>>, <<57875, 8898>>,
       <<57876, 8899>>, <<57877, 8900>>, <<57878, 8901>>, <<57879, 8902>>, <<57880, 8903>>, <<57881, 8904>>,
       <<57882, 8905>>, <<57883, 8906>>, <<57884, 8907>>, <<57885, 8908>>, <<57886, 8909>>, <<57887, 8910>>,
       <<57888, 8911>>, <<57889, 8912>>, <<57890, 8913>>, <<57891, 8914>>, <<57892, 8915>>, <<57893, 8916>>,
       <<57894, 8917>>, <<57895, 8918>>, <<57896, 8919>>, <<57897, 8920>>, <<57898, 8921>>, <<57899, 8922>>,
       <<57900, 8923>>, <<57901, 8924>>, <<57902, 8925>>, <<57903, 8926>>, <<57904, 8927>>, <<57905, 8928>>,
       <<57906, 8929>>, <<57907, 8930>>, <<57908, 22707>>, <<57909, 22708>>, <<57910, 22709>>,
       <<57911, 22710>>, <<57912, 22711>>, <<57913, 22712>>, <<57914, 22713>>, <<57915, 22714>>,
       <<57916, 22715>>, <<57917, 22716>>, <<57918, 22717>>, <<57919, 22718>>, <<57920, 22719>>,
       <<57921, 22720>>, <<57922, 22721>>, <<57923, 22722>>, <<57924, 22723>>, <<57925, 22724>>,
       <<57926, 22725>>, <<57927, 22726>>, <<57928, 22727>>, <<57929, 22728>>, <<57930, 22729>>,
       <<57931, 22730>>, <<57932, 22731>>, <<57933, 22732>>, <<57934, 22733>>, <<57935, 22734>>,
       <<57936, 22735>>, <<57937, 22736>>, <<57938, 22737>>, <<57939, 22738>>, <<57940, 22739>>,
       <<57941, 22740>>, <<57942, 22741>>, <<57943, 22742>>, <<57944, 22743>>, <<57945, 22744>>,
       <<57946, 22745>>, <<57947, 22746>>, <<57948, 22747>>, <<57949, 22748>>, <<57950, 22749>>,
       <<57951, 22750>>, <<57952, 22751>>, <<57953, 22752>>, <<57954, 22753>>, <<57955, 22754>>,
       <<57956, 22755>>, <<57957, 22756>>, <<57958, 22757>>, <<57959, 22758>>, <<57960, 22759>>,
       <<57961, 22760>>, <<57962, 22761>>, <<57963, 22762>>, <<57964, 22763>>, <<57965, 22764>>,
       <<57966, 22765>>, <<57967, 22766>>, <<57968, 22767>>, <<57969, 22768>>, <<57970, 22769>>,
       <<57971, 22770>>, <<57972, 22771>>, <<57973, 22772>>, <<57974, 22773>>, <<57975, 22774>>,
       <<57976, 22775>>, <<57977, 22776>>, <<57978, 22777>>, <<57979, 22778>>, <<57980, 22779>>,
       <<57981, 22780>>, <<57982, 22781>>, <<57983, 22782>>, <<57984, 22783>>, <<57985, 22784>>,
       <<57986, 22785>>, <<57987, 22786>>, <<57988, 22787>>, <<57989, 22788>>, <<57990, 22789>>,
       <<57991, 22790>>, <<57992, 22791>>, <<57993, 22792>>, <<57994, 22793>>, <<57995, 22794>>,
       <<57996, 22795>>, <<57997, 22796>>, <<57998, 22797>>, <<57999, 22798>>, <<58000, 22799>>,
       <<58001, 22800>>, <<58002, 22897>>, <<58003, 22898>>, <<58004, 22899>>, <<58005, 22900>>,
       <<58006, 22901>>, <<58007, 22902>>, <<58008, 22903>>, <<58009, 22904>>, <<58010, 22905>>,
       <<58011, 22906>>, <<58012, 22907>>, <<58013, 22908>>, <<58014, 22909>>, <<58015, 22910>>,
       <<58016, 22911>>, <<58017, 22912>>, <<58018, 22913>>, <<58019, 22914>>, <<58020, 22915>>,
       <<58021, 22916>>, <<58022, 22917>>, <<58023, 22918>>, <<58024, 22919>>, <<58025, 22920>>,
       <<58026, 22921>>, <<58027, 22922>>, <<58028, 22923>>, <<58029, 22924>>, <<58030, 22925>>,
       <<58031, 22926>>, <<58032, 22927>>, <<58033, 22928>>, <<58034, 22929>>, <<58035, 22930>>,
       <<58036, 22931>>, <<58037, 22932>>, <<58038, 22933>>, <<58039, 22934>>, <<58040, 22935>>,
       <<58041, 22936>>, <<58042, 22937>>, <<58043, 22938>>, <<58044, 22939>>, <<58045, 22940>>,
       <<58046, 22941>>, <<58047, 22942>>, <<58048, 22943>>, <<58049, 22944>>, <<58050, 22945>>,
       <<58051, 22946>>, <<58052, 22947>>, <<58053, 22948>>, <<58054, 22949>>, <<58055, 22950>>,
       <<58056, 22951>>, <<58057, 22952>>, <<58058, 22953>>, <<58059, 22954>>, <<58060, 22955>>,
       <<58061, 22956>>, <<58062, 22957>>, <<58063, 22958>>, <<58064, 22959>>, <<58065, 22960>>,
       <<58066, 22961>>, <<58067, 22962>>, <<58068, 22963>>, <<58069, 22964>>, <<58070, 22965>>,
       <<58071, 22966>>, <<58072, 22967>>, <<58073, 22968>>, <<58074, 22969>>, <<58075, 22970>>,
       <<58076, 22971>>, <<58077, 22972>>, <<58078, 22973>>, <<58079, 22974>>, <<58080, 22975>>,
       <<58081, 22976>>, <<58082, 22977>>, <<58083, 22978>>, <<58084, 22979>>, <<58085, 22980>>,
       <<58086, 22981>>, <<58087, 22982>>, <<58088, 22983>>, <<58089, 22984>>, <<58090, 22985>>,
       <<58091, 22986>>, <<58092, 22987>>, <<58093, 22988>>, <<58094, 22989>>, <<58095, 22990>>,
       <<58096, 23087>>, <<58097, 23088>>, <<58098, 23089>>, <<58099, 23090>>, <<58100, 23091>>,
       <<58101, 23092>>, <<58102, 23093>>, <<58103, 23094>>, <<58104, 23095>>, <<58105, 23096>>,
       <<58106, 23097>>, <<58107, 23098>>, <<58108, 23099>>, <<58109, 23100>>, <<58110, 23101>>,
       <<58111, 23102>>, <<58112, 23103>>, <<58113, 23104>>, <<58114, 23105>>, <<58115, 23106>>,
       <<58116, 23107>>, <<58117, 23108>>, <<58118, 23109>>, <<58119, 23110>>, <<58120, 23111>>,
       <<58121, 23112>>, <<58122, 23113>>, <<58123, 23114>>, <<58124, 23115>>, <<58125, 23116>>,
       <<58126, 23117>>, <<58127, 23118>>, <<58128, 23119>>, <<58129, 23120>>, <<58130, 23121>>,
       <<58131, 23122>>, <<58132, 23123>>, <<58133, 23124>>, <<58134, 23125>>, <<58135, 23126>>,
       <<58136, 23127>>, <<58137, 23128>>, <<58138, 23129>>, <<58139, 23130>>, <<58140, 23131>>,
       <<58141, 23132>>, <<58142, 23133>>, <<58143, 23134>>, <<58144, 23135>>, <<58145, 23136>>,
       <<58146, 23137>>, <<58147, 23138>>, <<58148, 23139>>, <<58149, 23140>>, <<58150, 23141>>,
       <<58151, 23142>>, <<58152, 23143>>, <<58153, 23144>>, <<58154, 23145>>, <<58155, 23146>>,
       <<58156, 23147>>, <<58157, 23148>>, <<58158, 23149>>, <<58159, 23150>>, <<58160, 23151>>,
       <<58161, 23152>>, <<58162, 23153>>, <<58163, 23154>>, <<58164, 23155>>, <<58165, 23156>>,
       <<58166, 23157>>, <<58167, 23158>>, <<58168, 23159>>, <<58169, 23160>>, <<58170, 23161>>,
       <<58171, 23162>>, <<58172, 23163>>, <<58173, 23164>>, <<58174, 23165>>, <<58175, 23166>>,
       <<58176, 23167>>, <<58177, 23168>>, <<58178, 23169>>, <<58179, 23170>>, <<58180, 23171>>,
       <<58181, 23172>>, <<58182, 23173>>, <<58183, 23174>>, <<58184, 23175>>, <<58185, 23176>>,
       <<58186, 23177>>, <<58187, 23178>>, <<58188, 23179>>, <<58189, 23180>>, <<58190, 23277>>,
       <<58191, 23278>>, <<58192, 23279>>, <<58193, 23280>>, <<58194, 23281>>, <<58195, 23282>>,
       <<58196, 23283>>, <<58197, 23284>>, <<58198, 23285>>, <<58199, 23286>>, <<58200, 23287>>,
       <<58201, 23288>>, <<58202, 23289>>, <<58203, 23290>>, <<58204, 23291>>, <<58205, 23292>>,
       <<58206, 23293>>, <<58207, 23294>>, <<58208, 23295>>, <<58209, 23296>>, <<58210, 23297>>,
       <<58211, 23298>>, <<58212, 23299>>, <<58213, 23300>>, <<58214, 23301>>, <<58215, 23302>>,
       <<58216, 23303>>, <<58217, 23304>>, <<58218, 23305>>, <<58219, 23306>>, <<58220, 23307>>,
       <<58221, 23308>>, <<58222, 23309>>, <<58223, 23310>>, <<58224, 23311>>, <<58225, 23312>>,
       <<58226, 23313>>, <<58227, 23314>>, <<58228, 23315>>, <<58229, 23316>>, <<58230, 23317>>,
       <<58231, 23318>>, <<58232, 23319>>, <<58233, 23320>>, <<58234, 23321>>, <<58235, 23322>>,
       <<58236, 23323>>, <<58237, 23324>>, <<58238, 23325>>, <<58239, 23326>>, <<58240, 23327>>,
       <<58241, 23328>>, <<58242, 23329>>, <<58243, 23330>>, <<58244, 23331>>, <<58245, 23332>>,
       <<58246, 23333>>, <<58247, 23334>>, <<58248, 23335>>, <<58249, 23336>>, <<58250, 23337>>,
       <<58251, 23338>>, <<58252, 23339>>, <<58253, 23340>>, <<58254, 23341>>, <<58255, 23342>>,
       <<58256, 23343>>, <<58257, 23344>>, <<58258, 23345>>, <<58259, 23346>>, <<58260, 23347>>,
       <<58261, 23348>>, <<58262, 23349>>, <<58263, 23350>>, <<58264, 23351>>, <<58265, 23352>>,
       <<58266, 23353>>, <<58267, 23354>>, <<58268, 23355>>, <<58269, 23356>>, <<58270, 23357>>,
       <<58271, 23358>>, <<58272, 23359>>, <<58273, 23360>>, <<58274, 23361>>, <<58275, 23362>>,
       <<58276, 23363>>, <<58277, 23364>>, <<58278, 23365>>, <<58279, 23366>>, <<58280, 23367>>,
       <<58281, 23368>>, <<58282, 23369>>, <<58283, 23370>>, <<58284, 23467>>, <<58285, 23468>>,
       <<58286, 23469>>, <<58287, 23470>>, <<58288, 23471>>, <<58289, 23472>>, <<58290, 23473>>,
       <<58291, 23474>>, <<58292, 23475>>, <<58293, 23476>>, <<58294, 23477>>, <<58295, 23478>>,
       <<58296, 23479>>, <<58297, 23480>>, <<58298, 23481>>, <<58299, 23482>>, <<58300, 23483>>,
       <<58301, 23484>>, <<58302, 23485>>, <<58303, 23486>>, <<58304, 23487>>, <<58305, 23488>>,
       <<58306, 23489>>, <<58307, 23490>>, <<58308, 23491>>, <<58309, 23492>>, <<58310, 23493>>,
       <<58311, 23494>>, <<58312, 23495>>, <<58313, 23496>>, <<58314, 23497>>, <<58315, 23498>>,
       <<58316, 23499>>, <<58317, 23500>>, <<58318, 23501>>, <<58319, 23502>>, <<58320, 23503>>,
       <<58321, 23504>>, <<58322, 23505>>, <<58323, 23506>>, <<58324, 23507>>, <<58325, 23508>>,
       <<58326, 23509>>, <<58327, 23510>>, <<58328, 23511>>, <<58329, 23512>>, <<58330, 23513>>,
       <<58331, 23514>>, <<58332, 23515>>, <<58333, 23516>>, <<58334, 23517>>, <<58335, 23518>>,
       <<58336, 23519>>, <<58337, 23520>>, <<58338, 23521>>, <<58339, 23522>>, <<58340, 23523>>,
       <<58341, 23524>>, <<58342, 23525>>, <<58343, 23526>>, <<58344, 23527>>, <<58345, 23528>>,
       <<58346, 23529>>, <<58347, 23530>>, <<58348, 23531>>, <<58349, 23532>>, <<58350, 23533>>,
       <<58351, 23534>>, <<58352, 23535>>, <<58353, 23536>>, <<58354, 23537>>, <<58355, 23538>>,
       <<58356, 23539>>, <<58357, 23540>>, <<58358, 23541>>, <<58359, 23542>>, <<58360, 23543>>,
       <<58361, 23544>>, <<58362, 23545>>, <<58363, 23546>>, <<58364, 23547>>, <<58365, 23548>>,
       <<58366, 23549>>, <<58367, 23550>>, <<58368, 23551>>, <<58369, 23552>>, <<58370, 23553>>,
       <<58371, 23554>>, <<58372, 23555>>, <<58373, 23556>>, <<58374, 23557>>, <<58375, 23558>>,
       <<58376, 23559>>, <<58377, 23560>>, <<58378, 23657>>, <<58379, 23658>>, <<58380, 23659>>,
       <<58381, 23660>>, <<58382, 23661>>, <<58383, 23662>>, <<58384, 23663>>, <<58385, 23664>>,
       <<58386, 23665>>, <<58387, 23666>>, <<58388, 23667>>, <<58389, 23668>>, <<58390, 23669>>,
       <<58391, 23670>>, <<58392, 23671>>, <<58393, 23672>>, <<58394, 23673>>, <<58395, 23674>>,
       <<58396, 23675>>, <<58397, 23676>>, <<58398, 23677>>, <<58399, 23678>>, <<58400, 23679>>,
       <<58401, 23680>>, <<58402, 23681>>, <<58403, 23682>>, <<58404, 23683>>, <<58405, 23684>>,
       <<58406, 23685>>, <<58407, 23686>>, <<58408, 23687>>, <<58409, 23688>>, <<58410, 23689>>,
       <<58411, 23690>>, <<58412, 23691>>, <<58413, 23692>>, <<58414, 23693>>, <<58415, 23694>>,
       <<58416, 23695>>, <<58417, 23696>>, <<58418, 23697>>, <<58419, 23698>>, <<58420, 23699>>,
       <<58421, 23700>>, <<58422, 23701>>, <<58423, 23702>>, <<58424, 23703>>, <<58425, 23704>>,
       <<58426, 23705>>, <<58427, 23706>>, <<58428, 23707>>, <<58429, 23708>>, <<58430, 23709>>,
       <<58431, 23710>>, <<58432, 23711>>, <<58433, 23712>>, <<58434, 23713>>, <<58435, 23714>>,
       <<58436, 23715>>, <<58437, 23716>>, <<58438, 23717>>, <<58439, 23718>>, <<58440, 23719>>,
       <<58441, 23720>>, <<58442, 23721>>, <<58443, 23722>>, <<58444, 23723>>, <<58445, 23724>>,
       <<58446, 23725>>, <<58447, 23726>>, <<58448, 23727>>, <<58449, 23728>>, <<58450, 23729>>,
       <<58451, 23730>>, <<58452, 23731>>, <<58453, 23732>>, <<58454, 23733>>, <<58455, 23734>>,
       <<58456, 23735>>, <<58457, 23736>>, <<58458, 23737>>, <<58459, 23738>>, <<58460, 23739>>,
       <<58461, 23740>>, <<58462, 23741>>, <<58463, 23742>>, <<58464, 23743>>, <<58465, 23744>>,
       <<58466, 23745>>, <<58467, 23746>>, <<58468, 23747>>, <<58469, 23748>>, <<58470, 23749>>,
       <<58471, 23750>>, <<58472, 23847>>, <<58473, 23848>>, <<58474, 23849>>, <<58475, 23850>>,
       <<58476, 23851>>, <<58477, 23852>>, <<58478, 23853>>, <<58479, 23854>>, <<58480, 23855>>,
       <<58481, 23856>>, <<58482, 23857>>, <<58483, 23858>>, <<58484, 23859>>, <<58485, 23860>>,
       <<58486, 23861>>, <<58487, 23862>>, <<58488, 23863>>, <<58489, 23864>>, <<58490, 23865>>,
       <<58491, 23866>>, <<58492, 23867>>, <<58493, 23868>>, <<58494, 23869>>, <<58495, 23870>>,
       <<58496, 23871>>, <<58497, 23872>>, <<58498, 23873>>, <<58499, 23874>>, <<58500, 23875>>,
       <<58501, 23876>>, <<58502, 23877>>, <<58503, 23878>>, <<58504, 23879>>, <<58505, 23880>>,
       <<58506, 23881>>, <<58507, 23882>>, <<58508, 23883>>, <<58509, 23884>>, <<58510, 23885>>,
       <<58511, 23886>>, <<58512, 23887>>, <<58513, 23888>>, <<58514, 23889>>, <<58515, 23890>>,
       <<58516, 23891>>, <<58517, 23892>>, <<58518, 23893>>, <<58519, 23894>>, <<58520, 23895>>,
       <<58521, 23896>>, <<58522, 23897>>, <<58523, 23898>>, <<58524, 23899>>, <<58525, 23900>>,
       <<58526, 23901>>, <<58527, 23902>>, <<58528, 23903>>, <<58529, 23904>>, <<58530, 23905>>,
       <<58531, 23906>>, <<58532, 23907>>, <<58533, 23908>>, <<58534, 23909>>, <<58535, 23910>>,
       <<58536, 23911>>, <<58537, 23912>>, <<58538, 23913>>, <<58539, 23914>>, <<58540, 23915>>,
       <<58541, 23916>>, <<58542, 23917>>, <<58543, 23918>>, <<58544, 23919>>, <<58545, 23920>>,
       <<58546, 23921>>, <<58547, 23922>>, <<58548, 23923>>, <<58549, 23924>>, <<58550, 23925>>,
       <<58551, 23926>>, <<58552, 23927>>, <<58553, 23928>>, <<58554, 23929>>, <<58555, 23930>>,
       <<58556, 23931>>, <<58557, 23932>>, <<58558, 23933>>, <<58559, 23934>>, <<58560, 23935>>,
       <<58561, 23936>>, <<58562, 23937>>, <<58563, 23938>>, <<58564, 23939>>, <<58565, 23940>>,
       <<58566, 6081>>, <<58567, 6082>>, <<58568, 6083>>, <<58569, 6084>>, <<58570, 6085>>, <<58571, 6086>>,
       <<58572, 6087>>, <<58573, 6088>>, <<58574, 6089>>, <<58575, 6090>>, <<58576, 6091>>, <<58577, 6092>>,
       <<58578, 6093>>, <<58579, 6094>>, <<58580, 6095>>, <<58581, 6096>>, <<58582, 6097>>, <<58583, 6098>>,
       <<58584, 6099>>, <<58585, 6100>>, <<58586, 6101>>, <<58587, 6102>>, <<58588, 6103>>, <<58589, 6104>>,
       <<58590, 6105>>, <<58591, 6106>>, <<58592, 6107>>, <<58593, 6108>>, <<58594, 6109>>, <<58595, 6110>>,
       <<58596, 6111>>, <<58597, 6112>>, <<58598, 6113>>, <<58599, 6114>>, <<58600, 6115>>, <<58601, 6116>>,
       <<58602, 6117>>, <<58603, 6118>>, <<58604, 6119>>, <<58605, 6120>>, <<58606, 6121>>, <<58607, 6122>>,
       <<58608, 6123>>, <<58609, 6124>>, <<58610, 6125>>, <<58611, 6126>>, <<58612, 6127>>, <<58613, 6128>>,
       <<58614, 6129>>, <<58615, 6130>>, <<58616, 6131>>, <<58617, 6132>>, <<58618, 6133>>, <<58619, 6134>>,
       <<58620, 6135>>, <<58621, 6136>>, <<58622, 6137>>, <<58623, 6138>>, <<58624, 6139>>, <<58625, 6140>>,
       <<58626, 6141>>, <<58627, 6142>>, <<58628, 6143>>, <<58629, 6144>>, <<58630, 6145>>, <<58631, 6146>>,
       <<58632, 6147>>, <<58633, 6148>>, <<58634, 6149>>, <<58635, 6150>>, <<58636, 6151>>, <<58637, 6152>>,
       <<58638, 6153>>, <<58639, 6154>>, <<58640, 6155>>, <<58641, 6156>>, <<58642, 6157>>, <<58643, 6158>>,
       <<58644, 6159>>, <<58645, 6160>>, <<58646, 6161>>, <<58647, 6162>>, <<58648, 6163>>, <<58649, 6164>>,
       <<58650, 6165>>, <<58651, 6166>>, <<58652, 6167>>, <<58653, 6168>>, <<58654, 6169>>, <<58655, 6170>>,
       <<58656, 6171>>, <<58657, 6172>>, <<58658, 6173>>, <<58659, 6174>>, <<58660, 6175>>, <<58661, 6176>>,
       <<58662, 6271>>, <<58663, 6272>>, <<58664, 6273>>, <<58665, 6274>>, <<58666, 6275>>, <<58667, 6276>>,
       <<58668, 6277>>, <<58669, 6278>>, <<58670, 6279>>, <<58671, 6280>>, <<58672, 6281>>, <<58673, 6282>>,
       <<58674, 6283>>, <<58675, 6284>>, <<58676, 6285>>, <<58677, 6286>>, <<58678, 6287>>, <<58679, 6288>>,
       <<58680, 6289>>, <<58681, 6290>>, <<58682, 6291>>, <<58683, 6292>>, <<58684, 6293>>, <<58685, 6294>>,
       <<58686, 6295>>, <<58687, 6296>>, <<58688, 6297>>, <<58689, 6298>>, <<58690, 6299>>, <<58691, 6300>>,
       <<58692, 6301>>, <<58693, 6302>>, <<58694, 6303>>, <<58695, 6304>>, <<58696, 6305>>, <<58697, 6306>>,
       <<58698, 6307>>, <<58699, 6308>>, <<58700, 6309>>, <<58701, 6310>>, <<58702, 6311>>, <<58703, 6312>>,
       <<58704, 6313>>, <<58705, 6314>>, <<58706, 6315>>, <<58707, 6316>>, <<58708, 6317>>, <<58709, 6318>>,
       <<58710, 6319>>, <<58711, 6320>>, <<58712, 6321>>, <<58713, 6322>>, <<58714, 6323>>, <<58715, 6324>>,
       <<58716, 6325>>, <<58717, 6326>>, <<58718, 6327>>, <<58719, 6328>>, <<58720, 6329>>, <<58721, 6330>>,
       <<58722, 6331>>, <<58723, 6332>>, <<58724, 6333>>, <<58725, 6334>>, <<58726, 6335>>, <<58727, 6336>>,
       <<58728, 6337>>, <<58729, 6338>>, <<58730, 6339>>, <<58731, 6340>>, <<58732, 6341>>, <<58733, 6342>>,
       <<58734, 6343>>, <<58735, 6344>>, <<58736, 6345>>, <<58737, 6346>>, <<58738, 6347>>, <<58739, 6348>>,
       <<58740, 6349>>, <<58741, 6350>>, <<58742, 6351>>, <<58743, 6352>>, <<58744, 6353>>, <<58745, 6354>>,
       <<58746, 6355>>, <<58747, 6356>>, <<58748, 6357>>, <<58749, 6358>>, <<58750, 6359>>, <<58751, 6360>>,
       <<58752, 6361>>, <<58753, 6362>>, <<58754, 6363>>, <<58755, 6364>>, <<58756, 6365>>, <<58757, 6366>>,
       <<58758, 6461>>, <<58759, 6462>>, <<58760, 6463>>, <<58761, 6464>>, <<58762, 6465>>, <<58763, 6466>>,
       <<58764, 6467>>, <<58765, 6468>>, <<58766, 6469>>, <<58767, 6470>>, <<58768, 6471>>, <<58769, 6472>>,
       <<58770, 6473>>, <<58771, 6474>>, <<58772, 6475>>, <<58773, 6476>>, <<58774, 6477>>, <<58775, 6478>>,
       <<58776, 6479>>, <<58777, 6480>>, <<58778, 6481>>, <<58779, 6482>>, <<58780, 6483>>, <<58781, 6484>>,
       <<58782, 6485>>, <<58783, 6486>>, <<58784, 6487>>, <<58785, 6488>>, <<58786, 6489>>, <<58787, 6490>>,
       <<58788, 6491>>, <<58789, 6492>>, <<58790, 6493>>, <<58791, 6494>>, <<58792, 6495>>, <<58793, 6496>>,
       <<58794, 6497>>, <<58795, 6498>>, <<58796, 6499>>, <<58797, 6500>>, <<58798, 6501>>, <<58799, 6502>>,
       <<58800, 6503>>, <<58801, 6504>>, <<58802, 6505>>, <<58803, 6506>>, <<58804, 6507>>, <<58805, 6508>>,
       <<58806, 6509>>, <<58807, 6510>>, <<58808, 6511>>, <<58809, 6512>>, <<58810, 6513>>, <<58811, 6514>>,
       <<58812, 6515>>, <<58813, 6516>>, <<58814, 6517>>, <<58815, 6518>>, <<58816, 6519>>, <<58817, 6520>>,
       <<58818, 6521>>, <<58819, 6522>>, <<58820, 6523>>, <<58821, 6524>>, <<58822, 6525>>, <<58823, 6526>>,
       <<58824, 6527>>, <<58825, 6528>>, <<58826, 6529>>, <<58827, 6530>>, <<58828, 6531>>, <<58829, 6532>>,
       <<58830, 6533>>, <<58831, 6534>>, <<58832, 6535>>, <<58833, 6536>>, <<58834, 6537>>, <<58835, 6538>>,
       <<58836, 6539>>, <<58837, 6540>>, <<58838, 6541>>, <<58839, 6542>>, <<58840, 6543>>, <<58841, 6544>>,
       <<58842, 6545>>, <<58843, 6546>>, <<58844, 6547>>, <<58845, 6548>>, <<58846, 6549>>, <<58847, 6550>>,
       <<58848, 6551>>, <<58849, 6552>>, <<58850, 6553>>, <<58851, 6554>>, <<58852, 6555>>, <<58853, 6556>>,
       <<58854, 6651>>, <<58855, 6652>>, <<58856, 6653>>, <<58857, 6654>>, <<58858, 6655>>, <<58859, 6656>>,
       <<58860, 6657>>, <<58861, 6658>>, <<58862, 6659>>, <<58863, 6660>>, <<58864, 6661>>, <<58865, 6662>>,
       <<58866, 6663>>, <<58867, 6664>>, <<58868, 6665>>, <<58869, 6666>>, <<58870, 6667>>, <<58871, 6668>>,
       <<58872, 6669>>, <<58873, 6670>>, <<58874, 6671>>, <<58875, 6672>>, <<58876, 6673>>, <<58877, 6674>>,
       <<58878, 6675>>, <<58879, 6676>>, <<58880, 6677>>, <<58881, 6678>>, <<58882, 6679>>, <<58883, 6680>>,
       <<58884, 6681>>, <<58885, 6682>>, <<58886, 6683>>, <<58887, 6684>>, <<58888, 6685>>, <<58889, 6686>>,
       <<58890, 6687>>, <<58891, 6688>>, <<58892, 6689>>, <<58893, 6690>>, <<58894, 6691>>, <<58895, 6692>>,
       <<58896, 6693>>, <<58897, 6694>>, <<58898, 6695>>, <<58899, 6696>>, <<58900, 6697>>, <<58901, 6698>>,
       <<58902, 6699>>, <<58903, 6700>>, <<58904, 6701>>, <<58905, 6702>>, <<58906, 6703>>, <<58907, 6704>>,
       <<58908, 6705>>, <<58909, 6706>>, <<58910, 6707>>, <<58911, 6708>>, <<58912, 6709>>, <<58913, 6710>>,
       <<58914, 6711>>, <<58915, 6712>>, <<58916, 6713>>, <<58917, 6714>>, <<58918, 6715>>, <<58919, 6716>>,
       <<58920, 6717>>, <<58921, 6718>>, <<58922, 6719>>, <<58923, 6720>>, <<58924, 6721>>, <<58925, 6722>>,
       <<58926, 6723>>, <<58927, 6724>>, <<58928, 6725>>, <<58929, 6726>>, <<58930, 6727>>, <<58931, 6728>>,
       <<58932, 6729>>, <<58933, 6730>>, <<58934, 6731>>, <<58935, 6732>>, <<58936, 6733>>, <<58937, 6734>>,
       <<58938, 6735>>, <<58939, 6736>>, <<58940, 6737>>, <<58941, 6738>>, <<58942, 6739>>, <<58943, 6740>>,
       <<58944, 6741>>, <<58945, 6742>>, <<58946, 6743>>, <<58947, 6744>>, <<58948, 6745>>, <<58949, 6746>>,
       <<58950, 6841>>, <<58951, 6842>>, <<58952, 6843>>, <<58953, 6844>>, <<58954, 6845>>, <<58955, 6846>>,
       <<58956, 6847>>, <<58957, 6848>>, <<58958, 6849>>, <<58959, 6850>>, <<58960, 6851>>, <<58961, 6852>>,
       <<58962, 6853>>, <<58963, 6854>>, <<58964, 6855>>, <<58965, 6856>>, <<58966, 6857>>, <<58967, 6858>>,
       <<58968, 6859>>, <<58969, 6860>>, <<58970, 6861>>, <<58971, 6862>>, <<58972, 6863>>, <<58973, 6864>>,
       <<58974, 6865>>, <<58975, 6866>>, <<58976, 6867>>, <<58977, 6868>>, <<58978, 6869>>, <<58979, 6870>>,
       <<58980, 6871>>, <<58981, 6872>>, <<58982, 6873>>, <<58983, 6874>>, <<58984, 6875>>, <<58985, 6876>>,
       <<58986, 6877>>, <<58987, 6878>>, <<58988, 6879>>, <<58989, 6880>>, <<58990, 6881>>, <<58991, 6882>>,
       <<58992, 6883>>, <<58993, 6884>>, <<58994, 6885>>, <<58995, 6886>>, <<58996, 6887>>, <<58997, 6888>>,
       <<58998, 6889>>, <<58999, 6890>>, <<59000, 6891>>, <<59001, 6892>>, <<59002, 6893>>, <<59003, 6894>>,
       <<59004, 6895>>, <<59005, 6896>>, <<59006, 6897>>, <<59007, 6898>>, <<59008, 6899>>, <<59009, 6900>>,
       <<59010, 6901>>, <<59011, 6902>>, <<59012, 6903>>, <<59013, 6904>>, <<59014, 6905>>, <<59015, 6906>>,
       <<59016, 6907>>, <<59017, 6908>>, <<59018, 6909>>, <<59019, 6910>>, <<59020, 6911>>, <<59021, 6912>>,
       <<59022, 6913>>, <<59023, 6914>>, <<59024, 6915>>, <<59025, 6916>>, <<59026, 6917>>, <<59027, 6918>>,
       <<59028, 6919>>, <<59029, 6920>>, <<59030, 6921>>, <<59031, 6922>>, <<59032, 6923>>, <<59033, 6924>>,
       <<59034, 6925>>, <<59035, 6926>>, <<59036, 6927>>, <<59037, 6928>>, <<59038, 6929>>, <<59039, 6930>>,
       <<59040, 6931>>, <<59041, 6932>>, <<59042, 6933>>, <<59043, 6934>>, <<59044, 6935>>, <<59045, 6936>>,
       <<59046, 7031>>, <<59047, 7032>>, <<59048, 7033>>, <<59049, 7034>>, <<59050, 7035>>, <<59051, 7036>>,
       <<59052, 7037>>, <<59053, 7038>>, <<59054, 7039>>, <<59055, 7040>>, <<59056, 7041>>, <<59057, 7042>>,
       <<59058, 7043>>, <<59059, 7044>>, <<59060, 7045>>, <<59061, 7046>>, <<59062, 7047>>, <<59063, 7048>>,
       <<59064, 7049>>, <<59065, 7050>>, <<59066, 7051>>, <<59067, 7052>>, <<59068, 7053>>, <<59069, 7054>>,
       <<59070, 7055>>, <<59071, 7056>>, <<59072, 7057>>, <<59073, 7058>>, <<59074, 7059>>, <<59075, 7060>>,
       <<59076, 7061>>, <<59077, 7062>>, <<59078, 7063>>, <<59079, 7064>>, <<59080, 7065>>, <<59081, 7066>>,
       <<59082, 7067>>, <<59083, 7068>>, <<59084, 7069>>, <<59085, 7070>>, <<59086, 7071>>, <<59087, 7072>>,
       <<59088, 7073>>, <<59089, 7074>>, <<59090, 7075>>, <<59091, 7076>>, <<59092, 7077>>, <<59093, 7078>>,
       <<59094, 7079>>, <<59095, 7080>>, <<59096, 7081>>, <<59097, 7082>>, <<59098, 7083>>, <<59099, 7084>>,
       <<59100, 7085>>, <<59101, 7086>>, <<59102, 7087>>, <<59103, 7088>>, <<59104, 7089>>, <<59105, 7090>>,
       <<59106, 7091>>, <<59107, 7092>>, <<59108, 7093>>, <<59109, 7094>>, <<59110, 7095>>, <<59111, 7096>>,
       <<59112, 7097>>, <<59113, 7098>>, <<59114, 7099>>, <<59115, 7100>>, <<59116, 7101>>, <<59117, 7102>>,
       <<59118, 7103>>, <<59119, 7104>>, <<59120, 7105>>, <<59121, 7106>>, <<59122, 7107>>, <<59123, 7108>>,
       <<59124, 7109>>, <<59125, 7110>>, <<59126, 7111>>, <<59127, 7112>>, <<59128, 7113>>, <<59129, 7114>>,
       <<59130, 7115>>, <<59131, 7116>>, <<59132, 7117>>, <<59133, 7118>>, <<59134, 7119>>, <<59135, 7120>>,
       <<59136, 7121>>, <<59137, 7122>>, <<59138, 7123>>, <<59139, 7124>>, <<59140, 7125>>, <<59141, 7126>>,
       <<59142, 7221>>, <<59143, 7222>>, <<59144, 7223>>, <<59145, 7224>>, <<59146, 7225>>, <<59147, 7226>>,
       <<59148, 7227>>, <<59149, 7228>>, <<59150, 7229>>, <<59151, 7230>>, <<59152, 7231>>, <<59153, 7232>>,
       <<59154, 7233>>, <<59155, 7234>>, <<59156, 7235>>, <<59157, 7236>>, <<59158, 7237>>, <<59159, 7238>>,
       <<59160, 7239>>, <<59161, 7240>>, <<59162, 7241>>, <<59163, 7242>>, <<59164, 7243>>, <<59165, 7244>>,
       <<59166, 7245>>, <<59167, 7246>>, <<59168, 7247>>, <<59169, 7248>>, <<59170, 7249>>, <<59171, 7250>>,
       <<59172, 7251>>, <<59173, 7252>>, <<59174, 7253>>, <<59175, 7254>>, <<59176, 7255>>, <<59177, 7256>>,
       <<59178, 7257>>, <<59179, 7258>>, <<59180, 7259>>, <<59181, 7260>>, <<59182, 7261>>, <<59183, 7262>>,
       <<59184, 7263>>, <<59185, 7264>>, <<59186, 7265>>, <<59187, 7266>>, <<59188, 7267>>, <<59189, 7268>>,
       <<59190, 7269>>, <<59191, 7270>>, <<59192, 7271>>, <<59193, 7272>>, <<59194, 7273>>, <<59195, 7274>>,
       <<59196, 7275>>, <<59197, 7276>>, <<59198, 7277>>, <<59199, 7278>>, <<59200, 7279>>, <<59201, 7280>>,
       <<59202, 7281>>, <<59203, 7282>>, <<59204, 7283>>, <<59205, 7284>>, <<59206, 7285>>, <<59207, 7286>>,
       <<59208, 7287>>, <<59209, 7288>>, <<59210, 7289>>, <<59211, 7290>>, <<59212, 7291>>, <<59213, 7292>>,
       <<59214, 7293>>, <<59215, 7294>>, <<59216, 7295>>, <<59217, 7296>>, <<59218, 7297>>, <<59219, 7298>>,
       <<59220, 7299>>, <<59221, 7300>>, <<59222, 7301>>, <<59223, 7302>>, <<59224, 7303>>, <<59225, 7304>>,
       <<59226, 7305>>, <<59227, 7306>>, <<59228, 7307>>, <<59229, 7308>>, <<59230, 7309>>, <<59231, 7310>>,
       <<59232, 7311>>, <<59233, 7312>>, <<59234, 7313>>, <<59235, 7314>>, <<59236, 7315>>, <<59237, 7316>>,
       <<59238, 6377>>, <<59239, 6378>>, <<59240, 6379>>, <<59241, 6380>>, <<59242, 6381>>, <<59243, 6382>>,
       <<59245, 6434>>, <<59246, 6445>>, <<59247, 6446>>, <<59248, 6459>>, <<59249, 6460>>, <<59250, 6830>>,
       <<59251, 6831>>, <<59252, 6832>>, <<59253, 6833>>, <<59254, 6834>>, <<59255, 6835>>, <<59256, 6836>>,
       <<59257, 6837>>, <<59258, 6838>>, <<59259, 6839>>, <<59260, 6840>>, <<59261, 7023>>, <<59262, 7024>>,
       <<59263, 7025>>, <<59264, 7026>>, <<59265, 7027>>, <<59266, 7028>>, <<59267, 7029>>, <<59268, 7030>>,
       <<59269, 7151>>, <<59270, 7152>>, <<59271, 7153>>, <<59272, 7154>>, <<59273, 7155>>, <<59274, 7156>>,
       <<59275, 7157>>, <<59276, 7158>>, <<59277, 7183>>, <<59278, 7184>>, <<59279, 7185>>, <<59280, 7186>>,
       <<59281, 7187>>, <<59282, 7188>>, <<59283, 7189>>, <<59284, 7202>>, <<59285, 7203>>, <<59286, 7209>>,
       <<59287, 7212>>, <<59288, 7213>>, <<59289, 7214>>, <<59290, 7215>>, <<59291, 7216>>, <<59292, 7217>>,
       <<59293, 7218>>, <<59294, 7219>>, <<59295, 7220>>, <<59296, 7350>>, <<59297, 7351>>, <<59298, 7352>>,
       <<59299, 7353>>, <<59300, 7354>>, <<59301, 7355>>, <<59302, 7356>>, <<59303, 7357>>, <<59304, 7358>>,
       <<59305, 7359>>, <<59306, 7360>>, <<59307, 7361>>, <<59308, 7362>>, <<59309, 7363>>, <<59310, 7364>>,
       <<59311, 7398>>, <<59312, 7399>>, <<59313, 7400>>, <<59314, 7401>>, <<59315, 7402>>, <<59316, 7403>>,
       <<59317, 7404>>, <<59318, 7405>>, <<59319, 7406>>, <<59320, 7407>>, <<59321, 7408>>, <<59322, 7409>>,
       <<59323, 7410>>, <<59324, 7496>>, <<59325, 7497>>, <<59326, 7498>>, <<59327, 7499>>, <<59328, 7500>>,
       <<59329, 7501>>, <<59330, 7502>>, <<59331, 7503>>, <<59332, 7504>>, <<59333, 7505>>, <<59334, 7506>>,
       <<59335, 7534>>, <<59337, 7539>>, <<59338, 7540>>, <<59339, 7541>>, <<59340, 7542>>, <<59341, 7580>>,
       <<59342, 7581>>, <<59343, 7582>>, <<59344, 7583>>, <<59345, 7584>>, <<59346, 7585>>, <<59347, 7586>>,
       <<59348, 7587>>, <<59349, 7588>>, <<59350, 7589>>, <<59351, 7590>>, <<59352, 7591>>, <<59353, 7592>>,
       <<59354, 7593>>, <<59355, 7594>>, <<59356, 7595>>, <<59357, 7596>>, <<59358, 7597>>, <<59359, 7598>>,
       <<59360, 7599>>, <<59361, 7600>>, <<59362, 7625>>, <<59363, 7628>>, <<59364, 7630>>, <<59365, 7631>>,
       <<59366, 7632>>, <<59380, 7687>>, <<59381, 7688>>, <<59382, 7689>>, <<59383, 7690>>, <<59384, 7691>>,
       <<59385, 7692>>, <<59386, 7693>>, <<59387, 7694>>, <<59388, 7695>>, <<59389, 7696>>, <<59390, 7697>>,
       <<59391, 7698>>, <<59392, 7699>>, <<59393, 7776>>, <<59394, 7777>>, <<59395, 7778>>, <<59396, 7779>>,
       <<59397, 7780>>, <<59398, 7781>>, <<59399, 7782>>, <<59400, 7783>>, <<59401, 7784>>, <<59402, 7785>>,
       <<59403, 7786>>, <<59404, 7787>>, <<59405, 7788>>, <<59406, 7789>>, <<59407, 7790>>,
       <<59408, 16526>>, <<59409, 16527>>, <<59410, 16528>>, <<59411, 16529>>, <<59412, 16530>>,
       <<59414, 23768>>, <<59415, 23769>>, <<59416, 23770>>, <<59422, 23776>>, <<59430, 23784>>,
       <<59435, 23789>>, <<59436, 23790>>, <<59441, 23795>>, <<59442, 23796>>, <<59451, 23805>>,
       <<59459, 23813>>, <<59476, 23830>>, <<59477, 23831>>, <<59492, 23846>>, <<63788, 23652>>,
       <<63865, 23653>>, <<63893, 23654>>, <<63975, 23655>>, <<63985, 23656>>, <<64012, 23751>>,
       <<64013, 23752>>, <<64014, 23753>>, <<64015, 23754>>, <<64017, 23755>>, <<64019, 23756>>,
       <<64020, 23757>>, <<64024, 23758>>, <<64031, 23759>>, <<64032, 23760>>, <<64033, 23761>>,
       <<64035, 23762>>, <<64036, 23763>>, <<64039, 23764>>, <<64040, 23765>>, <<64041, 23766>>,
       <<65072, 7622>>, <<65073, 7208>>, <<65075, 7210>>, <<65076, 7211>>, <<65077, 7190>>, <<65078, 7191>>,
       <<65079, 7206>>, <<65080, 7207>>, <<65081, 7192>>, <<65082, 7193>>, <<65083, 7204>>, <<65084, 7205>>,
       <<65085, 7196>>, <<65086, 7197>>, <<65087, 7194>>, <<65088, 7195>>, <<65089, 7198>>, <<65090, 7199>>,
       <<65091, 7200>>, <<65092, 7201>>, <<65097, 7641>>, <<65098, 7642>>, <<65099, 7643>>, <<65100, 7644>>,
       <<65101, 7645>>, <<65102, 7646>>, <<65103, 7647>>, <<65104, 7648>>, <<65105, 7649>>, <<65106, 7650>>,
       <<65108, 7651>>, <<65109, 7652>>, <<65110, 7653>>, <<65111, 7654>>, <<65113, 7655>>, <<65114, 7656>>,
       <<65115, 7657>>, <<65116, 7658>>, <<65117, 7659>>, <<65118, 7660>>, <<65119, 7661>>, <<65120, 7662>>,
       <<65121, 7663>>, <<65122, 7664>>, <<65123, 7665>>, <<65124, 7666>>, <<65125, 7667>>, <<65126, 7668>>,
       <<65128, 7669>>, <<65129, 7670>>, <<65130, 7671>>, <<65131, 7672>>, <<65281, 6557>>, <<65282, 6558>>,
       <<65283, 6559>>, <<65284, 6247>>, <<65285, 6561>>, <<65286, 6562>>, <<65287, 6563>>, <<65288, 6564>>,
       <<65289, 6565>>, <<65290, 6566>>, <<65291, 6567>>, <<65292, 6568>>, <<65293, 6569>>, <<65294, 6570>>,
       <<65295, 6571>>, <<65296, 6572>>, <<65297, 6573>>, <<65298, 6574>>, <<65299, 6575>>, <<65300, 6576>>,
       <<65301, 6577>>, <<65302, 6578>>, <<65303, 6579>>, <<65304, 6580>>, <<65305, 6581>>, <<65306, 6582>>,
       <<65307, 6583>>, <<65308, 6584>>, <<65309, 6585>>, <<65310, 6586>>, <<65311, 6587>>, <<65312, 6588>>,
       <<65313, 6589>>, <<65314, 6590>>, <<65315, 6591>>, <<65316, 6592>>, <<65317, 6593>>, <<65318, 6594>>,
       <<65319, 6595>>, <<65320, 6596>>, <<65321, 6597>>, <<65322, 6598>>, <<65323, 6599>>, <<65324, 6600>>,
       <<65325, 6601>>, <<65326, 6602>>, <<65327, 6603>>, <<65328, 6604>>, <<65329, 6605>>, <<65330, 6606>>,
       <<65331, 6607>>, <<65332, 6608>>, <<65333, 6609>>, <<65334, 6610>>, <<65335, 6611>>, <<65336, 6612>>,
       <<65337, 6613>>, <<65338, 6614>>, <<65339, 6615>>, <<65340, 6616>>, <<65341, 6617>>, <<65342, 6618>>,
       <<65343, 6619>>, <<65344, 6620>>, <<65345, 6621>>, <<65346, 6622>>, <<65347, 6623>>, <<65348, 6624>>,
       <<65349, 6625>>, <<65350, 6626>>, <<65351, 6627>>, <<65352, 6628>>, <<65353, 6629>>, <<65354, 6630>>,
       <<65355, 6631>>, <<65356, 6632>>, <<65357, 6633>>, <<65358, 6634>>, <<65359, 6635>>, <<65360, 6636>>,
       <<65361, 6637>>, <<65362, 6638>>, <<65363, 6639>>, <<65364, 6640>>, <<65365, 6641>>, <<65366, 6642>>,
       <<65367, 6643>>, <<65368, 6644>>, <<65369, 6645>>, <<65370, 6646>>, <<65371, 6647>>, <<65372, 6648>>,
       <<65373, 6649>>, <<65374, 6187>>, <<65504, 6249>>, <<65505, 6250>>, <<65506, 7623>>, <<65507, 6650>>,
       <<65508, 7624>>, <<65509, 6560>> >>

\* GB18030, four-byte codes b1 b2 b3 b4 (b1 and b3 in 129..254, b2 and b4 in
\* 48..57), numbered ((b1 - 129) * 10 + b2 - 48) * 1260 + (b3 - 129) * 10 + b4 - 48:
\* the ranges in use as <<first number, last number, code point of the first>>,
\* the code points of a range following in order
GbFourByte ==
    << <<0, 35, 128>>, <<36, 37, 165>>, <<38, 44, 169>>, <<45, 49, 178>>, <<50, 80, 184>>, <<81, 88, 216>>,
       <<89, 94, 226>>, <<95, 95, 235>>, <<96, 99, 238>>, <<100, 102, 244>>, <<103, 103, 248>>,
       <<104, 104, 251>>, <<105, 108, 253>>, <<109, 125, 258>>, <<126, 132, 276>>, <<133, 147, 284>>,
       <<148, 171, 300>>, <<172, 174, 325>>, <<175, 178, 329>>, <<179, 207, 334>>, <<208, 305, 364>>,
       <<306, 306, 463>>, <<307, 307, 465>>, <<308, 308, 467>>, <<309, 309, 469>>, <<310, 310, 471>>,
       <<311, 311, 473>>, <<312, 312, 475>>, <<313, 340, 477>>, <<341, 427, 506>>, <<428, 442, 594>>,
       <<443, 543, 610>>, <<544, 544, 712>>, <<545, 557, 716>>, <<558, 740, 730>>, <<741, 741, 930>>,
       <<742, 748, 938>>, <<749, 749, 962>>, <<750, 804, 970>>, <<805, 818, 1026>>, <<819, 819, 1104>>,
       <<820, 7921, 1106>>, <<7922, 7923, 8209>>, <<7924, 7924, 8215>>, <<7925, 7926, 8218>>,
       <<7927, 7933, 8222>>, <<7934, 7942, 8231>>, <<7943, 7943, 8241>>, <<7944, 7944, 8244>>,
       <<7945, 7949, 8246>>, <<7950, 8061, 8252>>, <<8062, 8147, 8365>>, <<8148, 8148, 8452>>,
       <<8149, 8151, 8454>>, <<8152, 8163, 8458>>, <<8164, 8173, 8471>>, <<8174, 8235, 8482>>,
       <<8236, 8239, 8556>>, <<8240, 8261, 8570>>, <<8262, 8263, 8596>>, <<8264, 8373, 8602>>,
       <<8374, 8379, 8713>>, <<8380, 8380, 8720>>, <<8381, 8383, 8722>>, <<8384, 8387, 8726>>,
       <<8388, 8389, 8731>>, <<8390, 8391, 8737>>, <<8392, 8392, 8740>>, <<8393, 8393, 8742>>,
       <<8394, 8395, 8748>>, <<8396, 8400, 8751>>, <<8401, 8405, 8760>>, <<8406, 8415, 8766>>,
       <<8416, 8418, 8777>>, <<8419, 8423, 8781>>, <<8424, 8436, 8787>>, <<8437, 8438, 8802>>,
       <<8439, 8444, 8808>>, <<8445, 8481, 8816>>, <<8482, 8484, 8854>>, <<8485, 8495, 8858>>,
       <<8496, 8520, 8870>>, <<8521, 8602, 8896>>, <<8603, 8935, 8979>>, <<8936, 8945, 9322>>,
       <<8946, 9045, 9372>>, <<9046, 9049, 9548>>, <<9050, 9062, 9588>>, <<9063, 9065, 9616>>,
       <<9066, 9075, 9622>>, <<9076, 9091, 9634>>, <<9092, 9099, 9652>>, <<9100, 9107, 9662>>,
       <<9108, 9110, 9672>>, <<9111, 9112, 9676>>, <<9113, 9130, 9680>>, <<9131, 9161, 9702>>,
       <<9162, 9163, 9735>>, <<9164, 9217, 9738>>, <<9218, 9218, 9793>>, <<9219, 11328, 9795>>,
       <<11329, 11330, 11906>>, <<11331, 11333, 11909>>, <<11334, 11335, 11913>>, <<11336, 11345, 11917>>,
       <<11346, 11360, 11928>>, <<11361, 11362, 11944>>, <<11363, 11365, 11947>>, <<11366, 11369, 11951>>,
       <<11370, 11371, 11956>>, <<11372, 11374, 11960>>, <<11375, 11388, 11964>>, <<11389, 11681, 11979>>,
       <<11682, 11685, 12284>>, <<11686, 11686, 12292>>, <<11687, 11691, 12312>>, <<11692, 11693, 12319>>,
       <<11694, 11713, 12330>>, <<11714, 11715, 12351>>, <<11716, 11722, 12436>>, <<11723, 11724, 12447>>,
       <<11725, 11729, 12535>>, <<11730, 11735, 12543>>, <<11736, 11981, 12586>>, <<11982, 11988, 12842>>,
       <<11989, 12101, 12850>>, <<12102, 12335, 12964>>, <<12336, 12347, 13200>>, <<12348, 12349, 13215>>,
       <<12350, 12383, 13218>>, <<12384, 12392, 13253>>, <<12393, 12394, 13263>>, <<12395, 12396, 13267>>,
       <<12397, 12509, 13270>>, <<12510, 12552, 13384>>, <<12553, 12850, 13428>>, <<12851, 12961, 13727>>,
       <<12962, 12972, 13839>>, <<12973, 13737, 13851>>, <<13738, 13822, 14617>>, <<13823, 13918, 14703>>,
       <<13919, 13932, 14801>>, <<13933, 14079, 14816>>, <<14080, 14297, 14964>>, <<14298, 14584, 15183>>,
       <<14585, 14697, 15471>>, <<14698, 15582, 15585>>, <<15583, 15846, 16471>>, <<15847, 16317, 16736>>,
       <<16318, 16433, 17208>>, <<16434, 16437, 17325>>, <<16438, 16480, 17330>>, <<16481, 16728, 17374>>,
       <<16729, 17101, 17623>>, <<17102, 17121, 17997>>, <<17122, 17314, 18018>>, <<17315, 17319, 18212>>,
       <<17320, 17401, 18218>>, <<17402, 17417, 18301>>, <<17418, 17858, 18318>>, <<17859, 17908, 18760>>,
       <<17909, 17910, 18811>>, <<17911, 17914, 18814>>, <<17915, 17915, 18820>>, <<17916, 17935, 18823>>,
       <<17936, 17938, 18844>>, <<17939, 17960, 18848>>, <<17961, 18663, 18872>>, <<18664, 18702, 19576>>,
       <<18703, 18813, 19620>>, <<18814, 18961, 19738>>, <<18962, 19042, 19887>>, <<19043, 33468, 40870>>,
       <<33469, 33469, 59244>>, <<33470, 33470, 59336>>, <<33471, 33483, 59367>>, <<33484, 33484, 59413>>,
       <<33485, 33489, 59417>>, <<33490, 33496, 59423>>, <<33497, 33500, 59431>>, <<33501, 33504, 59437>>,
       <<33505, 33512, 59443>>, <<33513, 33519, 59452>>, <<33520, 33535, 59460>>, <<33536, 33549, 59478>>,
       <<33550, 37844, 59493>>, <<37845, 37920, 63789>>, <<37921, 37947, 63866>>, <<37948, 38028, 63894>>,
       <<38029, 38037, 63976>>, <<38038, 38063, 63986>>, <<38064, 38064, 64016>>, <<38065, 38065, 64018>>,
       <<38066, 38068, 64021>>, <<38069, 38074, 64025>>, <<38075, 38075, 64034>>, <<38076, 38077, 64037>>,
       <<38078, 39107, 64042>>, <<39108, 39108, 65074>>, <<39109, 39112, 65093>>, <<39113, 39113, 65107>>,
       <<39114, 39114, 65112>>, <<39115, 39115, 65127>>, <<39116, 39264, 65132>>, <<39265, 39393, 65375>>,
       <<39394, 39419, 65510>>, <<189000, 1237575, 65536>> >>

-----------------------------------------------------------------------------
(* Text and byte helpers *)

\* the printable ASCII characters 32..95 and 97..126 (a TLA+ string cannot
\* hold the grave accent, 96)
AsciiLow == " !\"#$%&'()*+,-./0123456789:;<=>?@ABCDEFGHIJKLMNOPQRSTUVWXYZ[\\]^_"
AsciiHigh == "abcdefghijklmnopqrstuvwxyz{|}~"

\* ord() of a one-character ASCII string
Ord(c) ==
    IF \E i \in 1..Len(AsciiLow) : SubSeq(AsciiLow, i, i) = c
    THEN 31 + (CHOOSE i \in 1..Len(AsciiLow) : SubSeq(AsciiLow, i, i) = c)
    ELSE 96 + (CHOOSE i \in 1..Len(AsciiHigh) : SubSeq(AsciiHigh, i, i) = c)

\* a string literal as a sequence of code points
S(str) == [i \in 1..Len(str) |-> Ord(SubSeq(str, i, i))]

None == <<>>

Min(a, b) == IF a <= b THEN a ELSE b
Max(a, b) == IF a >= b THEN a ELSE b
Abs(x) == IF x < 0 THEN -x ELSE x

\* an ASCII digit
IsDigit(c) == c \in 48..57

\* the number of rows of a table, ascending in column col, whose entry in
\* that column is at most x: rows 1..lo are known to be, rows above hi not
RECURSIVE RankFrom(_, _, _, _, _)
RankFrom(table, col, x, lo, hi) ==
    IF lo = hi THEN lo
    ELSE IF table[(lo + hi + 1) \div 2][col] <= x
         THEN RankFrom(table, col, x, (lo + hi + 1) \div 2, hi)
         ELSE RankFrom(table, col, x, lo, (lo + hi + 1) \div 2 - 1)

Rank(table, col, x) == RankFrom(table, col, x, 0, Len(table))

\* whether x lies in one of the ranges <<first, last>> of the table
InRanges(table, x) ==
    LET Within(r) == r > 0 /\ x <= table[r][2]
    IN  Within(Rank(table, 1, x))

\* the concatenation of the sequences parts[lo], ..., parts[hi]
RECURSIVE Concat(_, _, _)
Concat(parts, lo, hi) ==
    IF lo > hi THEN <<>>
    ELSE IF lo = hi THEN parts[lo]
    ELSE Concat(parts, lo, (lo + hi) \div 2) \o Concat(parts, (lo + hi) \div 2 + 1, hi)

\* str.upper() on one code point: one character or, for some, several
UpperChar(c) ==
    LET Row(r) == IF r > 0 /\ UpperTable[r][1] = c THEN UpperTable[r][2] ELSE <<c>>
    IN  IF c \in 97..122 THEN <<c - 32>>
        ELSE IF c < 128 THEN <<c>>
        ELSE Row(Rank(UpperTable, 1, c))

\* str.upper(): character by character
Upper(s) ==
    IF \A i \in 1..Len(s) : s[i] < 128
    THEN [i \in 1..Len(s) |-> IF s[i] \in 97..122 THEN s[i] - 32 ELSE s[i]]
    ELSE Concat([i \in 1..Len(s) |-> UpperChar(s[i])], 1, Len(s))

\* bytes.lower() on one byte: the ASCII letters only
LowerChar(c) == IF c \in 65..90 THEN c + 32 ELSE c

\* bytes.lower()
Lower(s) == [i \in 1..Len(s) |-> LowerChar(s[i])]

\* characters removed by str.strip(): the code points with str.isspace()
SpaceChars ==
    (9..13) \cup (28..32) \cup {133, 160, 5760, 8232, 8233, 8239, 8287, 12288}
        \cup (8192..8202)

\* bytes removed by bytes.strip(): ASCII whitespace
SpaceBytes == {9, 10, 11, 12, 13, 32}

\* s.strip() with ws the characters to remove at both ends
Strip(s, ws) ==
    LET keep == {i \in 1..Len(s) : s[i] \notin ws}
    IN  IF keep = {} THEN <<>>
        ELSE SubSeq(s, CHOOSE i \in keep : \A j \in keep : i <= j,
                       CHOOSE i \in keep : \A j \in keep : i >= j)

StrStrip(s) == Strip(s, SpaceChars)

\* str.isalnum() on one code point
IsAlnum(c) ==
    IF c < 128 THEN c \in (48..57) \cup (65..90) \cup (97..122)
    ELSE InRanges(AlnumRanges, c)

\* "".join([c for c in s if c.isalnum()])
AlnumOnly(s) == SelectSeq(s, IsAlnum)

\* str.replace(old, new) for one-character old and new
ReplaceChar(s, old, new) == [i \in 1..Len(s) |-> IF s[i] = old THEN new ELSE s[i]]

\* str.ljust(width, fill)
LJust(s, width, fill) ==
    s \o [i \in 1..(IF Len(s) < width THEN width - Len(s) ELSE 0) |-> fill]

\* the least and the greatest element of a non-empty set of numbers
SetMin(set) == CHOOSE x \in set : \A y \in set : x <= y
SetMax(set) == CHOOSE x \in set : \A y \in set : x >= y

-----------------------------------------------------------------------------
(* Binary data (bytes).  An item 0..255 is one byte; an item -n stands for   *)
(* n blanks (bytes 32) one after the other, which lets a source of many      *)
(* megabytes be written down.  Lengths and offsets count bytes, from 0;     *)
(* the data are shorter than 2^31 bytes.                                     *)

\* the places of b that hold a stretch of blanks
Stretches(b) == {j \in 1..Len(b) : b[j] < 0}

\* the number of bytes the stretches at the places js stand for
RECURSIVE StretchBytes(_, _)
StretchBytes(b, js) ==
    IF js = {} THEN 0
    ELSE StretchBytes(b, js \ {SetMin(js)}) - b[SetMin(js)]

\* the offset of the first byte of the item at place k, k in 1..Len(b) + 1
OffsetOf(b, k) ==
    LET Counted(js) == (k - 1) - Cardinality(js) + StretchBytes(b, js)
    IN  Counted({j \in Stretches(b) : j < k})

\* len(b)
ByteLen(b) == OffsetOf(b, Len(b) + 1)

\* b[lo:hi] for 0 <= lo
ByteSlice(b, lo, hi) ==
    LET \* the bytes of the item at place k that lie in the slice
        Part(k) == Min(OffsetOf(b, k + 1), hi) - Max(OffsetOf(b, k), lo)
        Items(in) ==
            [i \in 1..Cardinality(in) |->
                IF b[SetMin(in) + i - 1] < 0 THEN -Part(SetMin(in) + i - 1)
                ELSE b[SetMin(in) + i - 1]]
    IN  IF Stretches(b) = {} THEN SubSeq(b, lo + 1, Min(hi, Len(b)))
        ELSE Items({k \in 1..Len(b) : Part(k) > 0})

\* buf[i:] and buf[:i] for 0 <= i
SliceFrom(buf, i) == ByteSlice(buf, i, ByteLen(buf))
SliceTo(buf, i) == ByteSlice(buf, 0, i)

\* a + b
BytesAdd(a, b) ==
    IF a # <<>> /\ b # <<>> /\ a[Len(a)] < 0 /\ b[1] < 0
    THEN SubSeq(a, 1, Len(a) - 1) \o <<a[Len(a)] + b[1]>> \o Tail(b)
    ELSE a \o b

\* the bytes of b one by one
Expand(b) ==
    IF Stretches(b) = {} THEN b
    ELSE Concat([k \in 1..Len(b) |->
                    IF b[k] < 0 THEN [i \in 1..(-b[k]) |-> 32] ELSE <<b[k]>>],
                1, Len(b))

\* not b.strip(): b holds nothing but ASCII whitespace
IsBlank(b) == \A i \in 1..Len(b) : b[i] < 0 \/ b[i] \in SpaceBytes

\* buf.find(pat): the offset of the first occurrence, -1 when absent (for a
\* pat without blank, or a buf without stretch)
Find(buf, pat) ==
    LET First(at) == IF at = {} THEN -1 ELSE OffsetOf(buf, SetMin(at) + 1)
    IN  First({i \in 0..(Len(buf) - Len(pat)) : SubSeq(buf, i + 1, i + Len(pat)) = pat})

-----------------------------------------------------------------------------
(* dict *)

Keys(d) == {d[i][1] : i \in 1..Len(d)}
HasKey(d, k) == k \in Keys(d)
IndexOf(d, k) == CHOOSE i \in 1..Len(d) : d[i][1] = k

\* d.get(k, default)
Get(d, k, default) == IF HasKey(d, k) THEN d[IndexOf(d, k)][2] ELSE default

\* d[k] = v : an existing key keeps its position
Put(d, k, v) ==
    IF HasKey(d, k) THEN [d EXCEPT ![IndexOf(d, k)] = <<k, v>>]
    ELSE Append(d, <<k, v>>)

\* the mapping of a dict, without the order of insertion
AsMap(d) == {<<d[i][1], d[i][2]>> : i \in 1..Len(d)}

TagSourceFile == S("_SOURCE_FILE")
TagCall == S("CALL")
TagBand == S("BAND")
TagMode == S("MODE")
TagQsoDate == S("QSO_DATE")
TagTimeOn == S("TIME_ON")
TagStationCallsign == S("STATION_CALLSIGN")
TagMyGridsquare == S("MY_GRIDSQUARE")

-----------------------------------------------------------------------------
(* get_qso_time: datetime.strptime(date_str + time_str, "%Y%m%d%H%M%S")     *)
(* A datetime is <<year, month, day, hour, minute, second>>.               *)

\* \d of a str pattern: a decimal digit of any script
IsDecimal(c) == IF c < 128 THEN IsDigit(c) ELSE InRanges(DecimalRanges, c)

\* int() of one decimal digit
DigitValue(c) ==
    IF c < 128 THEN c - 48
    ELSE (c - DecimalRanges[Rank(DecimalRanges, 1, c)][1]) % 10

\* s[p..p+n-1] are n decimal digits
HasDigits(s, p, n) == p + n - 1 <= Len(s) /\ \A j \in p..(p + n - 1) : IsDecimal(s[j])

\* int() of the two decimal digits at p
Num2(s, p) == 10 * DigitValue(s[p]) + DigitValue(s[p + 1])

\* whether the characters a, b match a two-character alternative of the
\* regular expression strptime has for directive k (a class such as [0-5] holds
\* ASCII digits only, \d every decimal digit):
\*   1 %m  1[0-2]|0[1-9]              2 %d  3[0-1]|[1-2]\d|0[1-9]
\*   3 %H  2[0-3]|[0-1]\d             4 %M  [0-5]\d
\*   5 %S  6[0-1]|[0-5]\d
TwoDigits(k, a, b) ==
    CASE k = 1 -> (a = 49 /\ b \in 48..50) \/ (a = 48 /\ b \in 49..57)
      [] k = 2 -> \/ a = 51 /\ b \in 48..49
                  \/ a \in 49..50 /\ IsDecimal(b)
                  \/ a = 48 /\ b \in 49..57
      [] k = 3 -> (a = 50 /\ b \in 48..51) \/ (a \in 48..49 /\ IsDecimal(b))
      [] k = 4 -> a \in 48..53 /\ IsDecimal(b)
      [] OTHER -> (a = 54 /\ b \in 48..49) \/ (a \in 48..53 /\ IsDecimal(b))

\* whether the character a matches the one-character alternative of
\* directive k: [1-9] for %m and %d, \d for %H, %M and %S
OneDigit(k, a) == IF k \in {1, 2} THEN a \in 49..57 ELSE IsDecimal(a)

\* The alternatives of directive k at position p, in the order the regular
\* expression tries them, each as <<characters taken, value>>: the
\* two-character ones, the one-character one and, for %d, a blank and [1-9]
FieldOptions(k, s, p) ==
    LET two == IF p + 1 <= Len(s) /\ TwoDigits(k, s[p], s[p + 1])
               THEN << <<2, Num2(s, p)>> >> ELSE <<>>
        one == IF p <= Len(s) /\ OneDigit(k, s[p])
               THEN << <<1, DigitValue(s[p])>> >> ELSE <<>>
        spaced == IF k = 2 /\ p + 1 <= Len(s) /\ s[p] = 32 /\ s[p + 1] \in 49..57
                  THEN << <<2, s[p + 1] - 48>> >> ELSE <<>>
    IN  two \o one \o spaced

\* The match of the directives k..5 from position p, with backtracking:
\* <<>> when there is none, else the values followed by the end position.
RECURSIVE MatchFields(_, _, _)
RECURSIVE TryOptions(_, _, _, _)
MatchFields(k, s, p) ==
    IF k > 5 THEN <<p>> ELSE TryOptions(k, s, p, 1)

TryOptions(k, s, p, i) ==
    LET opts == FieldOptions(k, s, p)
    IN  IF i > Len(opts) THEN <<>>
        ELSE LET r == MatchFields(k + 1, s, p + opts[i][1])
             IN  IF r # <<>> THEN <<opts[i][2]>> \o r
                 ELSE TryOptions(k, s, p, i + 1)

IsLeap(y) == y % 4 = 0 /\ (y % 100 # 0 \/ y % 400 = 0)

DaysInMonth(y, m) ==
    CASE m \in {4, 6, 9, 11} -> 30
      [] m = 2 -> IF IsLeap(y) THEN 29 ELSE 28
      [] OTHER -> 31

\* datetime.strptime(s, "%Y%m%d%H%M%S"), None for every ValueError
Strptime(s) ==
    LET Checked(m, y) ==
            IF m = <<>> THEN None                        \* does not match format
            ELSE IF m[6] # Len(s) + 1 THEN None          \* unconverted data remains
            ELSE IF y < 1 \/ m[2] > DaysInMonth(y, m[1]) \/ m[5] > 59 THEN None
            ELSE <<y, m[1], m[2], m[3], m[4], m[5]>>
    IN  IF ~HasDigits(s, 1, 4) THEN None
        ELSE Checked(MatchFields(1, s, 5), 100 * Num2(s, 1) + Num2(s, 3))

DefaultTimeOn == S("000000")

\* (mutant) a TIME_ON longer than six characters is not cut
get_qso_time_not_truncated(rec) ==
    LET Padded(time_raw) == IF Len(time_raw) < 6 THEN LJust(time_raw, 6, 48)
                            ELSE time_raw
        date_str == Get(rec, TagQsoDate, <<>>)
        time_str == Padded(Get(rec, TagTimeOn, DefaultTimeOn))
    IN  Strptime(date_str \o time_str)

get_qso_time(rec) ==
    LET Padded(time_raw) == IF Len(time_raw) < 6 THEN LJust(time_raw, 6, 48)
                            ELSE SubSeq(time_raw, 1, 6)
        date_str == Get(rec, TagQsoDate, <<>>)
        time_str == Padded(Get(rec, TagTimeOn, DefaultTimeOn))
    IN  Strptime(date_str \o time_str)

RECURSIVE DaysBeforeMonth(_, _)
DaysBeforeMonth(y, m) ==
    IF m <= 1 THEN 0 ELSE DaysBeforeMonth(y, m - 1) + DaysInMonth(y, m - 1)

\* datetime.toordinal()
Ordinal(t) ==
    LET y == t[1] - 1
    IN  y * 365 + (y \div 4) - (y \div 100) + (y \div 400)
          + DaysBeforeMonth(t[1], t[2]) + t[3]

SecondOfDay(t) == t[4] * 3600 + t[5] * 60 + t[6]

\* (a - b).total_seconds()
TotalSeconds(a, b) ==
    (Ordinal(a) - Ordinal(b)) * 86400 + (SecondOfDay(a) - SecondOfDay(b))

-----------------------------------------------------------------------------
(* FastDeduplicator *)

\* FastDeduplicator.__init__
NewDeduplicator ==
    [final_records |-> <<>>, lookup_index |-> <<>>, dupe_details |-> <<>>]

\* (mutant) every stored record is indexed, comparable or not
add_to_storage_always_indexed(d, group_key, record, dx_call, band, mode, qso_time) ==
    LET key == <<dx_call, band, mode>>
        group_index == Get(d.lookup_index, group_key, <<>>)
    IN  [d EXCEPT !.final_records =
                      Put(@, group_key, Append(Get(@, group_key, <<>>), record)),
                  !.lookup_index =
                      Put(@, group_key,
                          Put(group_index, key,
                              Append(Get(group_index, key, <<>>), <<qso_time, record>>)))]

\* (mutant) the append to the stored list placed under the index condition
add_to_storage_if_indexed(d, group_key, record, dx_call, band, mode, qso_time) ==
    IF dx_call # <<>> /\ qso_time # None
    THEN LET key == <<dx_call, band, mode>>
             group_index == Get(d.lookup_index, group_key, <<>>)
         IN  [d EXCEPT !.final_records =
                           Put(@, group_key, Append(Get(@, group_key, <<>>), record)),
                       !.lookup_index =
                           Put(@, group_key,
                               Put(group_index, key,
                                   Append(Get(group_index, key, <<>>), <<qso_time, record>>)))]
    ELSE d

\* (mutant) the candidate list holding only its latest entry
add_to_storage_latest_only(d, group_key, record, dx_call, band, mode, qso_time) ==
    LET stored == Put(d.final_records, group_key,
                      Append(Get(d.final_records, group_key, <<>>), record))
        key == <<dx_call, band, mode>>
        group_index == Get(d.lookup_index, group_key, <<>>)
    IN  IF dx_call # <<>> /\ qso_time # None
        THEN [d EXCEPT !.final_records = stored,
                       !.lookup_index =
                           Put(d.lookup_index, group_key,
                               Put(group_index, key, << <<qso_time, record>> >>))]
        ELSE [d EXCEPT !.final_records = stored]

add_to_storage(d, group_key, record, dx_call, band, mode, qso_time) ==
    LET stored == Put(d.final_records, group_key,
                      Append(Get(d.final_records, group_key, <<>>), record))
        key == <<dx_call, band, mode>>
        group_index == Get(d.lookup_index, group_key, <<>>)
        bucket == Get(group_index, key, <<>>)
    IN  IF dx_call # <<>> /\ qso_time # None
        THEN [d EXCEPT !.final_records = stored,
                       !.lookup_index =
                           Put(d.lookup_index, group_key,
                               Put(group_index, key, Append(bucket, <<qso_time, record>>)))]
        ELSE [d EXCEPT !.final_records = stored]

\* (mutant) the candidates of the key taken from every group
RECURSIVE AllGroupsCandidates(_, _)
AllGroupsCandidates(index, key) ==
    IF index = <<>> THEN <<>>
    ELSE Get(Head(index)[2], key, <<>>) \o AllGroupsCandidates(Tail(index), key)

LookupCandidatesAnyGroup(d, group_key, key) == AllGroupsCandidates(d.lookup_index, key)

\* candidates = self.lookup_index[group_key][key]
LookupCandidates(d, group_key, key) ==
    Get(Get(d.lookup_index, group_key, <<>>), key, <<>>)

\* (mutant) the tolerance taken as exclusive
FirstDupeStrict(candidates, qso_time, i) ==
    LET within == {j \in i..Len(candidates) :
                      Abs(TotalSeconds(qso_time, candidates[j][1])) < 900}
    IN  IF within = {} THEN 0 ELSE CHOOSE j \in within : \A k \in within : j <= k

\* (mutant) the loop without its break: the last candidate within the tolerance
FirstDupeLast(candidates, qso_time, i) ==
    LET within == {j \in i..Len(candidates) :
                      Abs(TotalSeconds(qso_time, candidates[j][1])) <= 900}
    IN  IF within = {} THEN 0 ELSE CHOOSE j \in within : \A k \in within : j >= k

\* (mutant) only the candidate inserted last is compared
FirstDupeNewestOnly(candidates, qso_time, i) ==
    IF candidates # <<>> /\ i <= Len(candidates)
          /\ Abs(TotalSeconds(qso_time, candidates[Len(candidates)][1])) <= 900
    THEN Len(candidates) ELSE 0

\* the loop over the candidates: the index of the first one within the
\* tolerance, 0 when the loop ends without a break
RECURSIVE FirstDupe(_, _, _)
FirstDupe(candidates, qso_time, i) ==
    IF i > Len(candidates) THEN 0
    ELSE IF Abs(TotalSeconds(qso_time, candidates[i][1])) <= 900 THEN i
         ELSE FirstDupe(candidates, qso_time, i + 1)

\* (mutant) a duplicate is reported and stored as well
process_record_stores_duplicates(d, record, group_key) ==
    LET Classify(dx_call, band, mode, qso_time) ==
            LET key == <<dx_call, band, mode>>
                candidates == LookupCandidates(d, group_key, key)
                hit == FirstDupe(candidates, qso_time, 1)
                stored == add_to_storage(d, group_key, record, dx_call, band, mode,
                                         qso_time)
            IN  IF dx_call = <<>> \/ qso_time = None THEN stored
                ELSE IF hit # 0
                THEN [stored EXCEPT !.dupe_details =
                          Append(@, [station |-> group_key, new_rec |-> record,
                                     old_rec |-> candidates[hit][2]])]
                ELSE stored
    IN  Classify(Upper(Get(record, TagCall, <<>>)), Upper(Get(record, TagBand, <<>>)),
                 Upper(Get(record, TagMode, <<>>)), get_qso_time(record))

process_record(d, record, group_key) ==
    LET Classify(dx_call, band, mode, qso_time) ==
            LET key == <<dx_call, band, mode>>
                \* lookup_index[group_key][key] on the defaultdicts creates the entries
                group_index == Get(d.lookup_index, group_key, <<>>)
                candidates == LookupCandidates(d, group_key, key)
                touched == [d EXCEPT !.lookup_index =
                                Put(d.lookup_index, group_key,
                                    Put(group_index, key, candidates))]
                hit == FirstDupe(candidates, qso_time, 1)
            IN  IF dx_call = <<>> \/ qso_time = None
                THEN add_to_storage(d, group_key, record, dx_call, band, mode, qso_time)
                ELSE IF hit # 0
                THEN [touched EXCEPT !.dupe_details =
                          Append(@, [station |-> group_key, new_rec |-> record,
                                     old_rec |-> candidates[hit][2]])]
                ELSE add_to_storage(touched, group_key, record, dx_call, band, mode,
                                    qso_time)
    IN  Classify(Upper(Get(record, TagCall, <<>>)), Upper(Get(record, TagBand, <<>>)),
                 Upper(Get(record, TagMode, <<>>)), get_qso_time(record))

-----------------------------------------------------------------------------
(* process_adi_files: the group key of a record (lines 400-420) *)

Unknown == S("UNKNOWN")
NoGrid == S("NOGRID")

\* (mutant) a blank STATION_CALLSIGN taken as a callsign
MissingCallsignAbsentOnly(rec) == ~HasKey(rec, TagStationCallsign)

\* not raw_callsign or not raw_callsign.strip()
MissingCallsign(rec) ==
    \/ ~HasKey(rec, TagStationCallsign)
    \/ StrStrip(Get(rec, TagStationCallsign, <<>>)) = <<>>

call_part(rec) ==
    IF MissingCallsign(rec) THEN Unknown
    ELSE ReplaceChar(Upper(StrStrip(Get(rec, TagStationCallsign, <<>>))), 47, 95)

\* the group key: the locator is cleaned only after the test for a blank one
group_key_of(rec) ==
    LET raw_grid == Get(rec, TagMyGridsquare, <<>>)
    IN  IF HasKey(rec, TagMyGridsquare) /\ StrStrip(raw_grid) # <<>>
        THEN call_part(rec) \o <<45>> \o AlnumOnly(Upper(StrStrip(raw_grid)))
        ELSE call_part(rec) \o <<45>> \o NoGrid

-----------------------------------------------------------------------------

(* Text encodings *)

\* continuation bytes that follow the lead byte b in UTF-8, -1 for a byte
\* that cannot start a sequence
Utf8Need(b) ==
    CASE b < 128 -> 0
      [] b \in 194..223 -> 1
      [] b \in 224..239 -> 2
      [] b \in 240..244 -> 3
      [] OTHER -> -1

\* whether c may be the k-th continuation byte after lead
Utf8ContOk(lead, k, c) ==
    IF k = 1
    THEN CASE lead = 224 -> c \in 160..191
           [] lead = 237 -> c \in 128..159
           [] lead = 240 -> c \in 144..191
           [] lead = 244 -> c \in 128..143
           [] OTHER -> c \in 128..191
    ELSE c \in 128..191

\* number of valid continuation bytes found after the lead at position i
RECURSIVE Utf8Valid(_, _, _)
Utf8Valid(b, i, k) ==
    IF k > Utf8Need(b[i]) \/ i + k > Len(b) THEN k - 1
    ELSE IF Utf8ContOk(b[i], k, b[i + k]) THEN Utf8Valid(b, i, k + 1)
         ELSE k - 1

Utf8CodePoint(b, i) ==
    CASE Utf8Need(b[i]) = 0 -> b[i]
      [] Utf8Need(b[i]) = 1 -> (b[i] - 192) * 64 + (b[i + 1] - 128)
      [] Utf8Need(b[i]) = 2 ->
            (b[i] - 224) * 4096 + (b[i + 1] - 128) * 64 + (b[i + 2] - 128)
      [] OTHER ->
            (b[i] - 240) * 262144 + (b[i + 1] - 128) * 4096
                + (b[i + 2] - 128) * 64 + (b[i + 3] - 128)

\* the outcome of a decoder that has met bytes it cannot decode
DecodeFails == [ok |-> FALSE, text |-> <<>>, next |-> 0]

\* the UTF-8 decoder at position i: the character read and the position
\* after it; with replace set, an ill-formed part becomes U+FFFD
\* (errors='replace'), else the decoding fails
Utf8Step(b, i, replace) ==
    LET Taken(need, valid) ==
            IF need >= 0 /\ valid = need
            THEN [ok |-> TRUE, text |-> <<Utf8CodePoint(b, i)>>, next |-> i + need + 1]
            ELSE IF replace
            THEN [ok |-> TRUE, text |-> <<65533>>, next |-> i + valid + 1]
            ELSE DecodeFails
    IN  Taken(Utf8Need(b[i]), Utf8Valid(b, i, 1))

\* the characters that start at the positions i..hi, read one after the
\* other from position i on, and the position after the last of them
RECURSIVE Utf8Span(_, _, _, _)
Utf8Span(b, i, hi, replace) ==
    LET Then(left) ==
            LET After(right) == IF right.ok THEN [right EXCEPT !.text = left.text \o @]
                                ELSE DecodeFails
            IN  IF left.ok THEN After(Utf8Span(b, left.next, hi, replace))
                ELSE DecodeFails
    IN  IF i > hi THEN [ok |-> TRUE, text |-> <<>>, next |-> i]
        ELSE IF i = hi THEN Utf8Step(b, i, replace)
        ELSE Then(Utf8Span(b, i, (i + hi) \div 2, replace))

\* bytes.decode('utf-8'), with errors='replace' when replace is set: whether
\* it returns (ok), and the text
Utf8Decode(b, replace) == Utf8Span(b, 1, Len(b), replace)

\* GB18030: the rank of a trail byte among 64..126, 128..254 (counted from 0),
\* -1 for a byte that is no trail byte
GbTrailRank(t) ==
    CASE t \in 64..126 -> t - 64
      [] t \in 128..254 -> t - 65
      [] OTHER -> -1

\* the number of a four-byte code, -1 for bytes that do not have its shape
GbFourNumber(b1, b2, b3, b4) ==
    IF b1 \in 129..254 /\ b2 \in 48..57 /\ b3 \in 129..254 /\ b4 \in 48..57
    THEN ((b1 - 129) * 10 + b2 - 48) * 1260 + (b3 - 129) * 10 + b4 - 48
    ELSE -1

\* the code point of the four-byte code of number n, -1 when n is not in use
GbFourChar(n) ==
    LET Row(r) == IF r > 0 /\ n <= GbFourByte[r][2]
                  THEN GbFourByte[r][3] + (n - GbFourByte[r][1]) ELSE -1
    IN  Row(Rank(GbFourByte, 1, n))

\* the two-byte code at place k of GbTwoByte
GbTwoBytesAt(k) ==
    <<129 + ((k - 1) \div 190),
      IF (k - 1) % 190 < 63 THEN 64 + ((k - 1) % 190) ELSE 65 + ((k - 1) % 190)>>

\* the four-byte code of number n
GbFourBytesAt(n) ==
    <<129 + (n \div 12600), 48 + ((n \div 1260) % 10), 129 + ((n \div 10) % 126),
      48 + (n % 10)>>

\* str.encode('gb18030') of one character; <<>> for one that has no code (a
\* surrogate), for which encode raises UnicodeEncodeError
GbEncodeChar(c) ==
    LET Four(r) == IF r > 0 /\ c - GbFourByte[r][3] <= GbFourByte[r][2] - GbFourByte[r][1]
                   THEN GbFourBytesAt(GbFourByte[r][1] + (c - GbFourByte[r][3]))
                   ELSE <<>>
        Two(r) == IF r > 0 /\ GbTwoByteCodes[r][1] = c
                  THEN GbTwoBytesAt(GbTwoByteCodes[r][2])
                  ELSE Four(Rank(GbFourByte, 3, c))
    IN  IF c < 128 THEN <<c>> ELSE Two(Rank(GbTwoByteCodes, 1, c))

\* whether text.encode('gb18030') returns
GbEncodable(text) == \A i \in 1..Len(text) : GbEncodeChar(text[i]) # <<>>

\* str.encode('gb18030') of a text it can encode
GbEncode(text) == Concat([i \in 1..Len(text) |-> GbEncodeChar(text[i])], 1, Len(text))

\* the GB18030 decoder at position i: a byte below 128 stands for itself,
\* another one starts a two-byte code or, before a byte 48..57, a four-byte
\* code
GbStep(b, i) ==
    LET Four(c) == IF c >= 0 THEN [ok |-> TRUE, text |-> <<c>>, next |-> i + 4]
                   ELSE DecodeFails
    IN  IF b[i] < 128 THEN [ok |-> TRUE, text |-> <<b[i]>>, next |-> i + 1]
        ELSE IF i + 1 <= Len(b) /\ b[i] \in 129..254 /\ GbTrailRank(b[i + 1]) >= 0
        THEN [ok |-> TRUE,
              text |-> <<GbTwoByte[(b[i] - 129) * 190 + GbTrailRank(b[i + 1]) + 1]>>,
              next |-> i + 2]
        ELSE IF i + 3 <= Len(b)
        THEN Four(GbFourChar(GbFourNumber(b[i], b[i + 1], b[i + 2], b[i + 3])))
        ELSE DecodeFails

\* the characters that start at the positions i..hi, read one after the
\* other from position i on, and the position after the last of them
RECURSIVE GbSpan(_, _, _)
GbSpan(b, i, hi) ==
    LET Then(left) ==
            LET After(right) == IF right.ok THEN [right EXCEPT !.text = left.text \o @]
                                ELSE DecodeFails
            IN  IF left.ok THEN After(GbSpan(b, left.next, hi))
                ELSE DecodeFails
    IN  IF i > hi THEN [ok |-> TRUE, text |-> <<>>, next |-> i]
        ELSE IF i = hi THEN GbStep(b, i)
        ELSE Then(GbSpan(b, i, (i + hi) \div 2))

\* bytes.decode('gb18030'): whether it returns (ok), and the text
GbDecode(b) == GbSpan(b, 1, Len(b))

\* lines 84-90: UTF-8 first (ASCII bytes are their own decoding), then
\* GB18030, then UTF-8 with replacement
DecodeValue(value_bytes) ==
    LET Gb(gb) == IF gb.ok THEN gb.text ELSE Utf8Decode(value_bytes, TRUE).text
        Utf8(utf8) == IF utf8.ok THEN utf8.text ELSE Gb(GbDecode(value_bytes))
    IN  IF \A i \in 1..Len(value_bytes) : value_bytes[i] < 128 THEN value_bytes
        ELSE Utf8(Utf8Decode(value_bytes, FALSE))

-----------------------------------------------------------------------------
(* AdifParser._parse_single_record *)

\* the item of raw at place i, places counted from 0 (the place of an item of
\* data without stretch is its offset)
At(raw, i) == raw[i + 1]

\* the first place >= i whose byte is in stop, Len(raw) when there is none
ScanTo(raw, i, stop) ==
    LET at == {j \in i..(Len(raw) - 1) : At(raw, j) \in stop}
    IN  IF at = {} THEN Len(raw) ELSE SetMin(at)

\* the first place >= i whose byte is no digit, Len(raw) when there is none
ScanDigits(raw, i) ==
    LET at == {j \in i..(Len(raw) - 1) : ~IsDigit(At(raw, j))}
    IN  IF at = {} THEN Len(raw) ELSE SetMin(at)

\* the longest digit string that int() converts
\* (sys.get_int_max_str_digits() of the Python build)
IntMaxStrDigits == 4300

\* whether int(digits) raises ValueError
IntRaises(digits) == Len(digits) > IntMaxStrDigits

\* digits without its leading zeros
Significant(digits) ==
    LET From(at) == IF at = {} THEN <<>> ELSE SubSeq(digits, SetMin(at), Len(digits))
    IN  From({i \in 1..Len(digits) : digits[i] # 48})

\* An int that int() makes of a length field has no bound; it is kept as its
\* decimal numeral, the string str() gives (no leading zero, "0" for zero).

\* int() of a run of ASCII digits that it converts
ParseInt(digits) ==
    IF Significant(digits) = <<>> THEN <<48>> ELSE Significant(digits)

\* str(n) for n >= 0
RECURSIVE Decimal(_)
Decimal(n) == IF n < 10 THEN <<48 + n>> ELSE Decimal(n \div 10) \o <<48 + (n % 10)>>

\* a > b of two ints
Greater(a, b) ==
    LET First(at) == at # {} /\ a[SetMin(at)] > b[SetMin(at)]
    IN  IF Len(a) # Len(b) THEN Len(a) > Len(b)
        ELSE First({i \in 1..Len(a) : a[i] # b[i]})

\* the number of an int that is no greater than a length of bytes
RECURSIVE Number(_)
Number(digits) ==
    IF digits = <<>> THEN 0
    ELSE 10 * Number(SubSeq(digits, 1, Len(digits) - 1)) + (digits[Len(digits)] - 48)

\* tag_pattern  <([^:>]+):(\d+)(?::[^>]+)?>  matched at place i:
\* <<>> or <<group(1), group(2), place after the match>>
TagMatchAt(raw, i) ==
    LET n == Len(raw)
        j == ScanTo(raw, i + 1, {58, 62})          \* end of the name
        k == ScanDigits(raw, j + 1)                \* end of the length
        q == ScanTo(raw, k + 1, {62})              \* end of the type
        head == <<SubSeq(raw, i + 2, j), SubSeq(raw, j + 2, k)>>
    IN  IF ~(i < n /\ At(raw, i) = 60) THEN <<>>
        ELSE IF ~(j < n /\ At(raw, j) = 58 /\ j > i + 1) THEN <<>>
        ELSE IF ~(k < n /\ k > j + 1) THEN <<>>
        ELSE IF At(raw, k) = 62 THEN head \o <<k + 1>>
        ELSE IF At(raw, k) = 58 /\ q < n /\ q > k + 1 THEN head \o <<q + 1>>
        ELSE <<>>

\* tag_pattern.search(raw, pos): <<>> or <<group(1), group(2), end()>>
TagSearch(raw, pos) ==
    LET Found(m) == <<m[1], m[2], OffsetOf(raw, m[3] + 1)>>
        First(at) == IF at = {} THEN <<>> ELSE Found(TagMatchAt(raw, SetMin(at)))
    IN  First({i \in 0..(Len(raw) - 1) :
                  At(raw, i) = 60 /\ OffsetOf(raw, i + 1) >= pos /\ TagMatchAt(raw, i) # <<>>})

\* bytes.decode('ascii', errors='ignore')
AsciiOnly(b) ==
    LET Kept(keep) == [i \in 1..Cardinality(keep) |->
                          b[CHOOSE k \in keep : Cardinality({j \in keep : j <= k}) = i]]
    IN  Kept({k \in 1..Len(b) : b[k] < 128})

\* group(1).decode('ascii', errors='ignore').upper()
TagName(name_bytes) == Upper(AsciiOnly(Expand(name_bytes)))

\* what stands for the ValueError of int() leaving _parse_single_record: a
\* value that no call returns
ValueError == << <<S("ValueError"), <<>>>> >>

\* the while loop of lines 64-96
RECURSIVE ParseTags(_, _, _)
ParseTags(raw_data, pos, record_data) ==
    LET Take(tag_match) ==
            IF tag_match = <<>> THEN record_data
            ELSE IF IntRaises(tag_match[2]) THEN ValueError
            ELSE LET value_len == ParseInt(tag_match[2])
                     value_start == tag_match[3]
                     data_len == ByteLen(raw_data)
                     \* not value_end <= data_len (line 79); value_start is
                     \* an offset of raw_data
                     PastEnd == Greater(value_len, Decimal(data_len - value_start))
                     Value(value_end) ==
                         ParseTags(raw_data, value_end,
                             Put(record_data, TagName(tag_match[1]),
                                 DecodeValue(Expand(ByteSlice(raw_data, value_start,
                                                              value_end)))))
                 IN  IF PastEnd THEN record_data
                     ELSE Value(value_start + Number(value_len))
    IN  IF pos >= ByteLen(raw_data) THEN record_data
        ELSE Take(TagSearch(raw_data, pos))

\* _parse_single_record(raw_data) of the parser of the file named file_name:
\* a record, None, or ValueError
parse_single_record(raw_data, file_name) ==
    LET Kept(record_data) ==
            IF record_data # ValueError /\ Len(record_data) <= 1 THEN None
            ELSE record_data
    IN  IF IsBlank(raw_data) THEN None
        ELSE Kept(ParseTags(raw_data, 0, << <<TagSourceFile, file_name>> >>))

-----------------------------------------------------------------------------

(* AdifParser.stream_records *)

EohMarker == S("<eoh>")
EorMarker == S("<eor>")

\* chunk_size (line 109)
ProgramChunkSize == 1024 * 1024 * 2

\* the buffer size past which the search for the header is given up (line 133)
HeaderLimit == 10 * 1024 * 1024

\* the state of the generator: buffer, header_found, the records yielded
\* and whether an exception has reached the except clause of line 162, which
\* ends the stream
NewStream == [buffer |-> <<>>, header_found |-> FALSE, out |-> <<>>, raised |-> FALSE]

\* parsed_rec = self._parse_single_record(...); if parsed_rec: yield parsed_rec
Yield(st, parsed_rec) ==
    IF parsed_rec = ValueError THEN [st EXCEPT !.raised = TRUE]
    ELSE IF parsed_rec # None THEN [st EXCEPT !.out = Append(@, parsed_rec)]
    ELSE st

\* the loop of lines 138-154 over the buffer
RECURSIVE ExtractRecords(_, _)
ExtractRecords(st, file_name) ==
    LET Again(next) == IF next.raised THEN next ELSE ExtractRecords(next, file_name)
        Cut(eor_idx) ==
            IF eor_idx = -1 THEN st
            ELSE Again(Yield([st EXCEPT !.buffer = SliceFrom(st.buffer, eor_idx + 5)],
                             parse_single_record(SliceTo(st.buffer, eor_idx), file_name)))
    IN  Cut(Find(Lower(st.buffer), EorMarker))

\* (mutant) the header terminator looked for in the chunk just read only
FeedChunkHeaderInChunk(st, chunk, threshold, file_name) ==
    LET Fed(buf, eoh_idx) ==
            IF st.header_found \/ eoh_idx # -1
            THEN ExtractRecords(
                     [st EXCEPT !.buffer = IF st.header_found THEN buf
                                           ELSE SliceFrom(chunk, eoh_idx + 5),
                                !.header_found = TRUE], file_name)
            ELSE [st EXCEPT !.buffer = buf, !.header_found = ByteLen(buf) > threshold]
    IN  Fed(BytesAdd(st.buffer, chunk), Find(Lower(chunk), EohMarker))

\* one pass of the loop of lines 117-154 with a non-empty chunk
FeedChunk(st, chunk, threshold, file_name) ==
    LET Fed(buf, eoh_idx) ==
            IF st.header_found \/ eoh_idx # -1
            THEN \* the header is behind: the records of the buffer are cut out
                 ExtractRecords(
                     [st EXCEPT !.buffer = IF st.header_found THEN buf
                                           ELSE SliceFrom(buf, eoh_idx + 5),
                                !.header_found = TRUE], file_name)
            ELSE \* no header yet: give up waiting for it past the threshold, and
                 \* go back to reading (continue)
                 [st EXCEPT !.buffer = buf, !.header_found = ByteLen(buf) > threshold]
    IN  Fed(BytesAdd(st.buffer, chunk), Find(Lower(BytesAdd(st.buffer, chunk)), EohMarker))

\* lines 156-160, after the last chunk
FinishStream(st, file_name) ==
    IF ~IsBlank(st.buffer)
    THEN Yield(st, parse_single_record(st.buffer, file_name))
    ELSE st

\* f.read(size) at the given offset
ReadAt(source, offset, size) == ByteSlice(source, offset, offset + size)

\* the loop of lines 117-154 from the given offset on, and what follows it
RECURSIVE StreamFrom(_, _, _, _, _, _)
StreamFrom(st, source, offset, size, threshold, file_name) ==
    LET Step(chunk) ==
            IF chunk = <<>> THEN FinishStream(st, file_name)
            ELSE StreamFrom(FeedChunk(st, chunk, threshold, file_name),
                            source, offset + ByteLen(chunk), size, threshold, file_name)
    IN  IF st.raised THEN st ELSE Step(ReadAt(source, offset, size))

\* list(stream_records()) of a source read without I/O errors
stream_records(source, size, threshold, file_name) ==
    StreamFrom(NewStream, source, 0, size, threshold, file_name).out

-----------------------------------------------------------------------------
(* write_adif_file *)

\* os.linesep: "\n" on POSIX, "\r\n" on Windows
LineSeps == {<<10>>, <<13, 10>>}

CRLF == <<13, 10>>

\* what f.write(text) puts in a file opened with open(path, 'w',
\* encoding='gb18030') (no newline argument) where os.linesep is linesep,
\* for a text the encoding has codes for: every "\n" becomes os.linesep,
\* then the text is encoded
FileEncode(text, linesep) ==
    Concat([i \in 1..Len(text) |->
               IF text[i] = 10 THEN GbEncode(linesep) ELSE GbEncodeChar(text[i])],
           1, Len(text))

HeaderText ==
    S("ADIF Export from Python Tool (Splitted by Call-Grid)") \o CRLF
        \o S("Created by Gemini") \o CRLF
        \o S("<ADIF_VER:5>3.1.4") \o CRLF
        \o S("<EOH>") \o CRLF

\* the length written in a tag header (line 254), for a value the encoding
\* has codes for
DeclaredLength(val_str) == Len(GbEncode(val_str))

\* line 254: one tag of the line
TagText(tag, val_str) ==
    <<60>> \o tag \o <<58>> \o Decimal(DeclaredLength(val_str)) \o <<62>>
        \o val_str \o <<32>>

\* tag.startswith('_')
IsInternalTag(tag) == tag # <<>> /\ tag[1] = 95

\* lines 248-254: the tags of one record
RECURSIVE TagsText(_)
TagsText(rec) ==
    IF rec = <<>> THEN <<>>
    ELSE (IF IsInternalTag(Head(rec)[1]) THEN <<>>
          ELSE TagText(Head(rec)[1], Head(rec)[2]))
             \o TagsText(Tail(rec))

RecordLine(rec) == TagsText(rec) \o S("<EOR>") \o CRLF

RECURSIVE RecordLines(_)
RecordLines(records) ==
    IF records = <<>> THEN <<>>
    ELSE RecordLine(Head(records)) \o RecordLines(Tail(records))

\* whether the line of the record gets written: encode raises
\* UnicodeEncodeError (line 254, or f.write for a tag name) on a character
\* without code
RecordEncodable(rec) ==
    \A i \in 1..Len(rec) :
        IsInternalTag(rec[i][1]) \/ (GbEncodable(rec[i][1]) /\ GbEncodable(rec[i][2]))

\* the records in front of the first one whose line raises
Writable(records) ==
    LET UpTo(bad) == IF bad = {} THEN records ELSE SubSeq(records, 1, SetMin(bad) - 1)
    IN  UpTo({i \in 1..Len(records) : ~RecordEncodable(records[i])})

\* os.path.basename(path)
BaseName(path) ==
    LET After(at) == IF at = {} THEN path ELSE SubSeq(path, SetMax(at) + 1, Len(path))
    IN  After({i \in 1..Len(path) : path[i] = 47})

\* the longest file name of the file system, in bytes (NAME_MAX)
NameMax == 255

\* the parts of a path between its '/'
PathParts(path) ==
    LET Cuts(at) == {SubSeq(path, i + 1, SetMin({j \in at : j > i}) - 1) : i \in at \ {Len(path) + 1}}
    IN  Cuts({0, Len(path) + 1} \cup {i \in 1..Len(path) : path[i] = 47})

\* the longest path of the file system, in bytes, the one that ends it
\* counted (PATH_MAX)
PathMax == 4096

\* the surrogates that stand for one byte each in a file name (the error
\* handler surrogateescape)
EscapedBytes == 56448..56575

\* the bytes of a file name as the file system gets it (UTF-8)
NameBytes(name) ==
    LET Wide(from) ==
            Cardinality({i \in 1..Len(name) : name[i] >= from /\ name[i] \notin EscapedBytes})
    IN  Len(name) + Wide(128) + Wide(2048) + Wide(65536)

\* whether the path can name a new file of a directory there is: open raises
\* ValueError on a NUL character, UnicodeEncodeError on a surrogate that
\* stands for no byte, and OSError on a name longer than NameMax, on a path
\* longer than PathMax and on a path that names a directory
PathOk(file_path) ==
    /\ \A i \in 1..Len(file_path) :
           file_path[i] # 0 /\ file_path[i] \notin (55296..57343) \ EscapedBytes
    /\ \A part \in PathParts(file_path) : NameBytes(part) <= NameMax
    /\ NameBytes(file_path) < PathMax
    /\ BaseName(file_path) \notin {<<>>, S("."), S("..")}

\* the error handlers python gives the text stream sys.stdout, of encoding
\* UTF-8: strict, and surrogateescape under the C and POSIX locales
StdoutErrors == {"strict", "surrogateescape"}

\* whether print(text) raises UnicodeEncodeError: the text holds a surrogate
\* that the error handler of sys.stdout does not turn into a byte
PrintRaises(text, stdout_errors) ==
    \E i \in 1..Len(text) :
        /\ text[i] \in 55296..57343
        /\ ~(stdout_errors = "surrogateescape" /\ text[i] \in EscapedBytes)

\* the outcome of a call that left no file: open has raised and the except
\* clause of lines 256-257 prints the path with the error; an exception of
\* this print leaves the call
NoFile(file_path, stdout_errors) ==
    [written |-> FALSE, file |-> <<>>, failed |-> TRUE,
     raised |-> PrintRaises(file_path, stdout_errors)]

\* write_adif_file(file_path, records) with a directory that lets the file
\* be made, sys.stdout of the error handler stdout_errors and os.linesep
\* linesep, when the file system takes every byte: whether there is a file
\* afterwards, its bytes, whether the except clause of lines 256-257 was
\* entered, and whether an exception leaves the call.  Every exception of
\* lines 244-255 ends in the except clause, whose print can raise in turn;
\* the lines written before the exception stay.
write_adif_file(file_path, records, stdout_errors, linesep) ==
    IF PathOk(file_path)
    THEN [written |-> TRUE,
          file |-> FileEncode(HeaderText \o RecordLines(Writable(records)), linesep),
          failed |-> Writable(records) # records,
          raised |-> Writable(records) # records /\ PrintRaises(file_path, stdout_errors)]
    ELSE NoFile(file_path, stdout_errors)

\* the outcome of a call in which open has made the file and the file
\* system then takes only the first n bytes (no space left, a limit on the
\* size of files): f.write, or the flush when the with statement closes the
\* file, raises OSError, the file keeps these bytes, and the except clause
\* of lines 256-257 prints the path with the error; whole is the outcome
\* when every byte is taken
CutShort(whole, n, file_path, stdout_errors) ==
    [whole EXCEPT !.file = SubSeq(@, 1, n),
                  !.failed = TRUE,
                  !.raised = PrintRaises(file_path, stdout_errors)]

\* os.path.join(a, b) of posixpath
PathJoin(a, b) ==
    IF b # <<>> /\ b[1] = 47 THEN b
    ELSE IF a = <<>> \/ a[Len(a)] = 47 THEN a \o b
    ELSE a \o <<47>> \o b

\* output_file of the export: os.path.join(output_dir, f"{file_key}.adi")
\* (line 448) with output_dir = os.path.join(current_dir, 'output') (line
\* 351), an absolute path
OutputFile(current_dir, file_key) ==
    PathJoin(PathJoin(current_dir, S("output")), file_key \o S(".adi"))

-----------------------------------------------------------------------------

(* Inputs of the deduplicator *)

\* number of process_record calls explored
MaxCalls == 3

\* marks a tag that the record does not have
Absent == <<-1>>

SourceName == S("a.adi")

RECURSIVE WithTags(_, _)
WithTags(rec, pairs) ==
    IF pairs = <<>> THEN rec
    ELSE IF Head(pairs)[2] = Absent THEN WithTags(rec, Tail(pairs))
         ELSE WithTags(Put(rec, Head(pairs)[1], Head(pairs)[2]), Tail(pairs))

\* a record as _parse_single_record builds it: provenance first, then the tags
Qso(call, band, mode, date, time) ==
    WithTags(<< <<TagSourceFile, SourceName>> >>,
             << <<TagCall, call>>, <<TagBand, band>>, <<TagMode, mode>>,
                <<TagQsoDate, date>>, <<TagTimeOn, time>> >>)

Records ==
    { Qso(S("W1AW"), S("20M"), S("SSB"), S("20240101"), S("120000")),
      Qso(S("w1aw"), S("20m"), S("ssb"), S("20240101"), S("1210")),
      Qso(S("W1AW"), S("20M"), S("SSB"), S("20240101"), S("121500")),
      Qso(S("W1AW"), S("20M"), S("SSB"), S("20240101"), S("121501")),
      Qso(S("W1AW"), S("20M"), S("SSB"), S("20240101"), S("234500")),
      Qso(S("W1AW"), S("20M"), S("SSB"), S("20240102"), Absent),
      Qso(Absent,    S("20M"), S("SSB"), S("20240101"), S("120000")),
      Qso(<<>>,      S("20M"), S("SSB"), S("20240101"), S("121000")),
      Qso(S("W1AW"), S("20M"), S("SSB"), Absent,        S("120000")),
      Qso(S("W1AW"), Absent,   Absent,   S("20240101"), S("120000")) }

GroupKeys == { S("BI4KVO-PM01"), S("BI4KVO-NOGRID") }

-----------------------------------------------------------------------------
(* The deduplicator as a state machine: one action per process_record call *)

IdleRun ==
    /\ files = <<>>
    /\ root_count = 0
    /\ chunk_size = 0
    /\ file_idx = 0
    /\ pc = "idle"
    /\ fpos = 0
    /\ buffer = <<>>
    /\ header_found = FALSE
    /\ yielded = <<>>
    /\ unknown_sources = <<>>
    /\ total_qso_count = 0
    /\ io_errors = {}

IdleFn ==
    /\ fn = "none"
    /\ arg = <<>>
    /\ result = <<>>
    /\ returned = FALSE
    /\ os_linesep = <<10>>
    /\ base_path = <<47>>

FreshDedup ==
    /\ final_records = NewDeduplicator.final_records
    /\ lookup_index = NewDeduplicator.lookup_index
    /\ dupe_details = NewDeduplicator.dupe_details
    /\ calls = <<>>

Dedup == [final_records |-> final_records, lookup_index |-> lookup_index,
          dupe_details |-> dupe_details]

Init == FreshDedup /\ IdleRun /\ IdleFn

ProcessRecord ==
    /\ Len(calls) < MaxCalls
    /\ \E record \in Records, group_key \in GroupKeys :
         LET d == process_record(Dedup, record, group_key)
         IN  /\ final_records' = d.final_records
             /\ lookup_index' = d.lookup_index
             /\ dupe_details' = d.dupe_details
             /\ calls' = Append(calls, <<record, group_key>>)
    /\ UNCHANGED <<run_vars, fn_vars>>

Next == ProcessRecord

Spec == Init /\ [][Next]_vars

-----------------------------------------------------------------------------
(* Properties of the deduplicator *)

CallOf(r) == Upper(Get(r, TagCall, <<>>))
KeyOf(r) == <<CallOf(r), Upper(Get(r, TagBand, <<>>)), Upper(Get(r, TagMode, <<>>))>>

\* the record has a contact callsign and a time key
\* the time keys of the records the calls are made with, computed once
RecordTimes == [r \in Records |-> get_qso_time(r)]

\* get_qso_time(r)
TimeKey(r) == IF r \in Records THEN RecordTimes[r] ELSE get_qso_time(r)

Comparable(r) == CallOf(r) # <<>> /\ TimeKey(r) # None

SecondsApart(r1, r2) == Abs(TotalSeconds(TimeKey(r1), TimeKey(r2)))

StoredIn(g) == Get(final_records, g, <<>>)

\* C1: two comparable records with the same uppercased (CALL, BAND, MODE),
\* processed one after the other into a fresh index under one group key: when
\* their times are exactly 900 seconds apart (either order) the second is a
\* duplicate matched to the first; when 901 seconds apart both are stored and
\* there is no duplicate event.
C1_ToleranceBoundary ==
    (/\ Len(calls) = 2
     /\ calls[1][2] = calls[2][2]
     /\ Comparable(calls[1][1]) /\ Comparable(calls[2][1])
     /\ KeyOf(calls[1][1]) = KeyOf(calls[2][1]))
    => LET r1 == calls[1][1]
           r2 == calls[2][1]
           g == calls[1][2]
       IN  /\ SecondsApart(r1, r2) = 900 =>
                /\ dupe_details = <<[station |-> g, new_rec |-> r2, old_rec |-> r1]>>
                /\ StoredIn(g) = <<r1>>
           /\ SecondsApart(r1, r2) = 901 =>
                /\ dupe_details = <<>>
                /\ StoredIn(g) = <<r1, r2>>

\* the second record is 900 seconds EARLIER than the first and was matched
C1_Witness ==
    /\ Len(calls) = 2
    /\ calls[1][2] = calls[2][2]
    /\ Comparable(calls[1][1]) /\ Comparable(calls[2][1])
    /\ TotalSeconds(get_qso_time(calls[1][1]), get_qso_time(calls[2][1])) = 900
    /\ Len(dupe_details) = 1
    /\ dupe_details[1].old_rec = calls[1][1]

\* the calls of the history made with group key g, in order
RECURSIVE CallsOfGroup(_, _)
CallsOfGroup(cs, g) ==
    IF cs = <<>> THEN <<>>
    ELSE IF Head(cs)[2] = g THEN <<Head(cs)>> \o CallsOfGroup(Tail(cs), g)
         ELSE CallsOfGroup(Tail(cs), g)

RECURSIVE Replay(_, _)
Replay(d, cs) ==
    IF cs = <<>> THEN d
    ELSE Replay(process_record(d, Head(cs)[1], Head(cs)[2]), Tail(cs))

RECURSIVE EventsOfGroup(_, _)
EventsOfGroup(es, g) ==
    IF es = <<>> THEN <<>>
    ELSE IF Head(es).station = g THEN <<Head(es)>> \o EventsOfGroup(Tail(es), g)
         ELSE EventsOfGroup(Tail(es), g)

InSeq(x, s) == \E i \in 1..Len(s) : s[i] = x

\* C2: duplicate detection is isolated per group key: every duplicate event's
\* matched record is stored under the event's group key, and what a group
\* holds (stored records, index, duplicate events) is what the calls made
\* with that group key alone produce, whatever calls were made with other keys.
C2_GroupIsolation ==
    /\ \A i \in 1..Len(dupe_details) :
          InSeq(dupe_details[i].old_rec, StoredIn(dupe_details[i].station))
    /\ \A g \in GroupKeys :
          LET alone == Replay(NewDeduplicator, CallsOfGroup(calls, g))
          IN  /\ StoredIn(g) = Get(alone.final_records, g, <<>>)
              /\ Get(lookup_index, g, <<>>) = Get(alone.lookup_index, g, <<>>)
              /\ EventsOfGroup(dupe_details, g) = alone.dupe_details

\* the same comparable record under two group keys: both stored, no event;
\* then once more under the first key: a duplicate of the first
C2_Witness ==
    /\ Len(calls) = 3
    /\ calls[1][1] = calls[2][1] /\ calls[2][1] = calls[3][1]
    /\ Comparable(calls[1][1])
    /\ calls[1][2] # calls[2][2] /\ calls[3][2] = calls[1][2]
    /\ StoredIn(calls[1][2]) = <<calls[1][1]>>
    /\ StoredIn(calls[2][2]) = <<calls[1][1]>>
    /\ Len(dupe_details) = 1 /\ dupe_details[1].station = calls[1][2]

\* C3: a record without CALL (missing or empty) or without a time key is
\* always accepted: the call appends it to its group's stored list and adds no
\* duplicate event, whatever was processed before.
C3_IncompleteAlwaysAccepted ==
    [][ (Len(calls') = Len(calls) + 1 /\ ~Comparable(calls'[Len(calls')][1]))
        => LET r == calls'[Len(calls')][1]
               g == calls'[Len(calls')][2]
           IN  /\ dupe_details' = dupe_details
               /\ Get(final_records', g, <<>>) = Append(StoredIn(g), r) ]_vars

\* an incomplete record processed after an identical one and after a
\* comparable one of the same group: stored again
C3_Witness ==
    /\ Len(calls) = 3
    /\ Comparable(calls[1][1])
    /\ ~Comparable(calls[2][1])
    /\ calls[3] = calls[2] /\ calls[1][2] = calls[2][2]
    /\ StoredIn(calls[3][2]) = <<calls[1][1], calls[2][1], calls[3][1]>>
    /\ dupe_details = <<>>

\* the stored records of group g that have the key of r and lie within the
\* tolerance of r, as indices into the group's stored list
Matches(r, g) ==
    {i \in 1..Len(StoredIn(g)) :
        /\ Comparable(StoredIn(g)[i])
        /\ KeyOf(StoredIn(g)[i]) = KeyOf(r)
        /\ SecondsApart(StoredIn(g)[i], r) <= 900}

\* C10: the matched record of a duplicate event is the earliest-stored record
\* of the bucket that lies within 900 seconds of the incoming one (not the
\* nearest in time).
C10_FirstInsertedWins ==
    \A k \in 1..Len(dupe_details) :
        LET e == dupe_details[k]
            m == Matches(e.new_rec, e.station)
        IN  /\ m # {}
            /\ e.old_rec = StoredIn(e.station)[CHOOSE i \in m : \A j \in m : i <= j]

\* two stored candidates within the tolerance, the reported one farther in time
C10_Witness ==
    \E k \in 1..Len(dupe_details) :
        LET e == dupe_details[k]
            m == Matches(e.new_rec, e.station)
        IN  \E i \in m :
               SecondsApart(StoredIn(e.station)[i], e.new_rec)
                   < SecondsApart(e.old_rec, e.new_rec)

-----------------------------------------------------------------------------
(* Single calls of the pure functions: Init draws the argument, the action  *)
(* applies the function.                                                   *)

\* longest STATION_CALLSIGN / MY_GRIDSQUARE value explored
MaxFieldLen == 2

Chars(str) == {Ord(SubSeq(str, i, i)) : i \in 1..Len(str)}

Strings(alphabet, n) == UNION {[1..k -> alphabet] : k \in 0..n}

\* blank, lower and upper case, '/', a non-alphanumeric character, a digit,
\* the ideographic space U+3000 and the letter U+00DF, whose upper case is
\* two letters
KeyAlphabet == Chars(" aB/-1") \cup {12288, 223}

KeyFieldValues == Strings(KeyAlphabet, MaxFieldLen) \cup {Absent}

KeyInputs(callsigns, locators) ==
    { WithTags(<< <<TagSourceFile, SourceName>>, <<TagCall, S("W1AW")>> >>,
               << <<TagStationCallsign, c>>, <<TagMyGridsquare, g>> >>) :
        c \in callsigns, g \in locators }

CallOf1(name, Inputs) ==
    /\ FreshDedup /\ IdleRun
    /\ fn = name
    /\ arg \in Inputs
    /\ result = <<>>
    /\ returned = FALSE
    /\ os_linesep = <<10>>
    /\ base_path = <<47>>

Return(name, value) ==
    /\ fn = name /\ ~returned
    /\ result' = value
    /\ returned' = TRUE
    /\ UNCHANGED <<fn, arg, os_linesep, base_path, dedup_vars, run_vars>>

InitKey == CallOf1("group_key", KeyInputs(KeyFieldValues, KeyFieldValues))

ApplyGroupKey == Return("group_key", group_key_of(arg))

NextKey == ApplyGroupKey

SpecKey == InitKey /\ [][NextKey]_vars

\* the key as the specification describes it: each part is cleaned first and
\* replaced by its placeholder when the cleaned part is empty
CleanCallsign(rec) ==
    ReplaceChar(Upper(StrStrip(Get(rec, TagStationCallsign, <<>>))), 47, 95)

CleanLocator(rec) == AlnumOnly(Upper(StrStrip(Get(rec, TagMyGridsquare, <<>>))))

DescribedKey(rec) ==
    (IF CleanCallsign(rec) = <<>> THEN Unknown ELSE CleanCallsign(rec))
        \o <<45>> \o
    (IF CleanLocator(rec) = <<>> THEN NoGrid ELSE CleanLocator(rec))

\* C9: the group key is "{callsign}-{locator}" with callsign the cleaned
\* STATION_CALLSIGN or "UNKNOWN" when that is empty, and locator the cleaned
\* MY_GRIDSQUARE or "NOGRID" whenever the cleaned locator is empty.
C9_GroupKeyAsDescribed ==
    (fn = "group_key" /\ returned) => result = DescribedKey(arg)

-----------------------------------------------------------------------------
(* Writing a record and reading the written file back *)

\* longest value written
MaxValueLen == 2

TagNotes == S("NOTES")
TagInternal == S("_X")

\* a letter, a line feed, characters outside ASCII with a two-byte code
\* (U+4E2D, U+6F0F, the code of the latter being UTF-8 for U+00A9) and a
\* four-byte code (U+00A9), and a surrogate (U+D800), which has no code
ValueAlphabet == {120, 10, 20013, 28431, 169, 55296}

CodecValues == Strings(ValueAlphabet, MaxValueLen)

\* a callsign that makes the name of the output file longer than NameMax
LongCallsign == [i \in 1..NameMax |-> 65]

\* records of one tag, and of two tags in both orders of insertion
CodecRecords ==
    { << <<TagSourceFile, SourceName>>, <<t, v>> >> :
        t \in {TagCall, TagInternal}, v \in CodecValues }
    \cup
    { << <<TagSourceFile, SourceName>>, <<t[1], v>>, <<t[2], w>> >> :
        t \in {<<TagCall, TagNotes>>, <<TagNotes, TagCall>>},
        v \in CodecValues, w \in Strings(ValueAlphabet, 1) }
    \cup
    { << <<TagSourceFile, SourceName>>, <<TagCall, v>>, <<TagStationCallsign, w>> >> :
        v \in Strings(ValueAlphabet, 1), w \in {S("b/p"), LongCallsign} }

\* directories of the script: one with a name of ASCII characters, and one
\* whose name holds a byte that is not UTF-8 (0xFF, in a str the surrogate
\* U+DCFF), which a file system of names in bytes can hold
PlainBasePath == S("/srv/log")
BasePaths == {PlainBasePath, S("/p") \o <<56575>> \o S("_k")}

\* a call of write_adif_file by the export, on either platform
InitCodec ==
    /\ FreshDedup /\ IdleRun
    /\ fn = "write_adif_file"
    /\ arg \in {<<r>> : r \in CodecRecords}
    /\ result = <<>>
    /\ returned = FALSE
    /\ os_linesep \in LineSeps
    /\ base_path \in IF os_linesep = <<10>> THEN BasePaths ELSE {PlainBasePath}

\* the file the export (lines 445-451) writes the records of arg to
ExportFile == OutputFile(base_path, group_key_of(arg[1]))

\* write_adif_file(output_file, recs): result is what is left on the disk,
\* and whether an exception has left the call
ApplyWrite ==
    \E stdout_errors \in StdoutErrors :
        Return("write_adif_file",
               write_adif_file(ExportFile, arg, stdout_errors, os_linesep))

\* write_adif_file(output_file, recs) when open raises OSError for a reason
\* outside the program (no permission, no space for a new file)
OpenRaises ==
    \E stdout_errors \in StdoutErrors :
        Return("write_adif_file", NoFile(ExportFile, stdout_errors))

\* write_adif_file(output_file, recs) when the file is made and a write
\* raises OSError for a reason outside the program: the file is cut short
\* at any byte
WriteRaises ==
    /\ fn = "write_adif_file" /\ ~returned
    /\ PathOk(ExportFile)
    /\ \E stdout_errors \in StdoutErrors :
           \E whole \in {write_adif_file(ExportFile, arg, stdout_errors, os_linesep)} :
               \E n \in 0..Len(whole.file) :
                   Return("write_adif_file", CutShort(whole, n, ExportFile, stdout_errors))

\* write_adif_file(output_file, recs) when the file system fails
WriteFails == OpenRaises \/ WriteRaises

\* the round trip: list(AdifParser(output_file).stream_records()) on the file
\* of a call that has reported no failure
ReadBack ==
    /\ fn = "write_adif_file" /\ returned /\ ~result.failed
    /\ fn' = "read_back"
    /\ result' = [written |-> result.written,
                  file |-> result.file,
                  failed |-> result.failed,
                  raised |-> result.raised,
                  records |-> stream_records(result.file, ProgramChunkSize,
                                             HeaderLimit, BaseName(ExportFile))]
    /\ UNCHANGED <<arg, returned, os_linesep, base_path, dedup_vars, run_vars>>

NextCodec == ApplyWrite \/ WriteFails \/ ReadBack

SpecCodec == InitCodec /\ [][NextCodec]_vars

\* the tags of a record other than the provenance attribute, as a mapping
TagMap(rec) == {p \in AsMap(rec) : p[1] # TagSourceFile}

\* every tag of the record is an ADIF field name (no internal marker)
PlainTags(rec) == \A p \in TagMap(rec) : ~IsInternalTag(p[1])

\* C4: writing a record and reading the written file yields exactly one
\* record, with the tag-to-value mapping of the original (provenance and order
\* of the tags aside), also for values with multi-byte characters.
C4_RoundTrip ==
    (fn = "read_back" /\ result.written /\ RecordEncodable(arg[1]) /\ PlainTags(arg[1]))
    => /\ Len(result.records) = 1
       /\ TagMap(result.records[1]) = TagMap(arg[1])

\* the tags written for a record, in order
RECURSIVE WrittenTags(_)
WrittenTags(rec) ==
    IF rec = <<>> THEN <<>>
    ELSE (IF IsInternalTag(Head(rec)[1]) THEN <<>> ELSE <<Head(rec)>>)
             \o WrittenTags(Tail(rec))

\* From offset pos the file holds the given tags one after the other, each as
\* a header matched by the parser's tag pattern whose declared length is the
\* number of bytes between the header and the separating blank, these bytes
\* being the value as the file's encoding writes it; then the terminator.
RECURSIVE LayoutOk(_, _, _)
LayoutOk(file, pos, tags) ==
    IF tags = <<>>
    THEN SubSeq(file, pos + 1, Len(file)) = S("<EOR>") \o FileEncode(CRLF, os_linesep)
    ELSE LET m == TagMatchAt(file, pos)
             value == FileEncode(Head(tags)[2], os_linesep)
         IN  /\ m # <<>>
             /\ m[1] = Head(tags)[1]
             /\ m[3] + Len(value) < Len(file)
             /\ SubSeq(file, m[3] + 1, m[3] + Len(value)) = value
             /\ At(file, m[3] + Len(value)) = 32
             /\ ~IntRaises(m[2]) /\ ParseInt(m[2]) = Decimal(Len(value))
             /\ LayoutOk(file, m[3] + Len(value) + 1, Tail(tags))

\* C7: in the file of a call that has ended without a failure, the length
\* declared in each tag header is the number of bytes the value occupies in
\* the file, that is its length in the encoding of the file.
C7_DeclaredByteLength ==
    (fn = "write_adif_file" /\ returned /\ result.written /\ ~result.failed)
    => LayoutOk(result.file, Len(FileEncode(HeaderText, os_linesep)), WrittenTags(arg[1]))

-----------------------------------------------------------------------------
(* Decoding a raw record span that ends in a truncated tag *)

\* number of complete tags in front of the truncated one
MaxTags == 2

\* <NAME:LENGTH>value as bytes, for an ASCII value
RawTag(name, value) ==
    <<60>> \o name \o <<58>> \o Decimal(Len(value)) \o <<62>> \o value

RECURSIVE RawTags(_)
RawTags(tags) ==
    IF tags = <<>> THEN <<>>
    ELSE RawTag(Head(tags)[1], Head(tags)[2]) \o <<32>> \o RawTags(Tail(tags))

SpanTagNames == {S("A"), S("b"), S("_source_file")}
SpanValues == {<<>>, S("x"), S("yz")}

\* tag headers whose declared length passes the end of the span, the last
\* one by more than 2^32
TruncatedTails == {S("<C:5>y"), S("<C:1>"), S("<C:12:S>abc "), S("<C:4294967297>y")}

SpanInputs ==
    [tags : UNION {[1..k -> SpanTagNames \X SpanValues] : k \in 0..MaxTags},
     tail : TruncatedTails]

SpanBytes(in) == RawTags(in.tags) \o in.tail

InitParse == CallOf1("parse_single_record", SpanInputs)

ApplyParse ==
    Return("parse_single_record", parse_single_record(SpanBytes(arg), SourceName))

NextParse == ApplyParse

SpecParse == InitParse /\ [][NextParse]_vars

\* the mapping made of the complete tags, later values replacing earlier ones
RECURSIVE TagsDict(_, _)
TagsDict(d, tags) ==
    IF tags = <<>> THEN d
    ELSE TagsDict(Put(d, Upper(Head(tags)[1]), Head(tags)[2]), Tail(tags))

\* C5: a span with a tag header whose declared length passes the end of the
\* span decodes to a record holding exactly the tags completed before that
\* header, plus the provenance; it is dropped (None) only when no tag was
\* completed.
C5_TruncatedTagKeepsDecoded ==
    (fn = "parse_single_record" /\ returned)
    => IF arg.tags = <<>> THEN result = None
       ELSE /\ result # None
            /\ AsMap(result) =
                   AsMap(TagsDict(<<>>, arg.tags)) \cup {<<TagSourceFile, SourceName>>}

-----------------------------------------------------------------------------
(* process_adi_files: the loop over the sources, fed by stream_records *)

\* all_target_files lists the files of the working directory first, then
\* those of its done directory: the sources 1..root_count are the former.
\* os.path.basename of the i-th source
FileName(i) == <<96 + (IF i > root_count THEN i - root_count ELSE i)>> \o S(".adi")

\* file_path_rel of the i-th source
FilePath(i) == IF i > root_count THEN S("done/") \o FileName(i) ELSE FileName(i)

\* the body of the loop over the yielded records: group key, missing
\* callsign count, process_record, total count
Consume(run, rec, file_path_rel) ==
    [d |-> process_record(run.d, rec, group_key_of(rec)),
     calls |-> Append(run.calls, <<rec, group_key_of(rec)>>),
     unknown |-> IF MissingCallsign(rec)
                 THEN Put(run.unknown, file_path_rel,
                          Get(run.unknown, file_path_rel, 0) + 1)
                 ELSE run.unknown,
     total |-> run.total + 1]

RECURSIVE ConsumeAll(_, _, _)
ConsumeAll(run, recs, file_path_rel) ==
    IF recs = <<>> THEN run
    ELSE ConsumeAll(Consume(run, Head(recs), file_path_rel), Tail(recs), file_path_rel)

Run == [d |-> Dedup, calls |-> calls, unknown |-> unknown_sources,
        total |-> total_qso_count]

\* the records of one step of the stream reach the loop body one by one
Deliver(recs) ==
    \E run \in {ConsumeAll(Run, recs, FilePath(file_idx))} :
        /\ final_records' = run.d.final_records
        /\ lookup_index' = run.d.lookup_index
        /\ dupe_details' = run.d.dupe_details
        /\ calls' = run.calls
        /\ unknown_sources' = run.unknown
        /\ total_qso_count' = run.total
        /\ yielded' = [yielded EXCEPT ![file_idx] = @ \o recs]

Stream == [buffer |-> buffer, header_found |-> header_found, out |-> <<>>,
           raised |-> FALSE]

\* a run over the sources, the first roots of them in the working directory
StartRun(sources, size, roots) ==
    /\ FreshDedup /\ IdleFn
    /\ files = sources
    /\ root_count = roots
    /\ chunk_size = size
    /\ file_idx = 0
    /\ pc = "next_file"
    /\ fpos = 0
    /\ buffer = <<>>
    /\ header_found = FALSE
    /\ yielded = [i \in 1..Len(sources) |-> <<>>]
    /\ unknown_sources = <<>>
    /\ total_qso_count = 0
    /\ io_errors = {}

\* the next source is opened and its stream started
OpenFile ==
    /\ pc = "next_file" /\ file_idx < Len(files)
    /\ file_idx' = file_idx + 1
    /\ pc' = "reading"
    /\ fpos' = 0
    /\ buffer' = NewStream.buffer
    /\ header_found' = NewStream.header_found
    /\ UNCHANGED <<dedup_vars, files, root_count, chunk_size, yielded, unknown_sources,
                   total_qso_count, io_errors, fn_vars>>

\* open() raises: the except clause of stream_records ends the stream
\* before any record
OpenFails ==
    /\ pc = "next_file" /\ file_idx < Len(files)
    /\ file_idx' = file_idx + 1
    /\ io_errors' = io_errors \cup {file_idx + 1}
    /\ fpos' = 0
    /\ buffer' = NewStream.buffer
    /\ header_found' = NewStream.header_found
    /\ UNCHANGED <<dedup_vars, files, root_count, chunk_size, pc, yielded, unknown_sources,
                   total_qso_count, fn_vars>>

\* f.read returns a non-empty chunk; the records it completes are processed,
\* up to one whose decoding raises, which ends the stream
ReadChunk ==
    /\ pc = "reading"
    /\ \E chunk \in {ReadAt(files[file_idx], fpos, chunk_size)} :
          /\ chunk # <<>>
          /\ fpos' = fpos + ByteLen(chunk)
          /\ \E st \in {FeedChunk(Stream, chunk, HeaderLimit, FileName(file_idx))} :
                /\ buffer' = st.buffer
                /\ header_found' = st.header_found
                /\ pc' = IF st.raised THEN "next_file" ELSE "reading"
                /\ Deliver(st.out)
    /\ UNCHANGED <<files, root_count, chunk_size, file_idx, io_errors, fn_vars>>

\* f.read returns nothing: what is left in the buffer is decoded and the
\* stream ends
EndOfFile ==
    /\ pc = "reading"
    /\ ReadAt(files[file_idx], fpos, chunk_size) = <<>>
    /\ \E st \in {FinishStream(Stream, FileName(file_idx))} : Deliver(st.out)
    /\ pc' = "next_file"
    /\ UNCHANGED <<files, root_count, chunk_size, file_idx, fpos, buffer, header_found,
                   io_errors, fn_vars>>

\* (mutant) the exception leaves the run instead of ending the stream
ReadFailsAborts ==
    /\ pc = "reading"
    /\ io_errors' = io_errors \cup {file_idx}
    /\ pc' = "done"
    /\ UNCHANGED <<dedup_vars, files, root_count, chunk_size, file_idx, fpos, buffer,
                   header_found, yielded, unknown_sources, total_qso_count, fn_vars>>

\* f.read raises: the except clause of stream_records ends the stream, what
\* is left in the buffer is not decoded
ReadFails ==
    /\ pc = "reading"
    /\ io_errors' = io_errors \cup {file_idx}
    /\ pc' = "next_file"
    /\ UNCHANGED <<dedup_vars, files, root_count, chunk_size, file_idx, fpos, buffer,
                   header_found, yielded, unknown_sources, total_qso_count, fn_vars>>

\* the loop over the sources is over
AllFilesRead ==
    /\ pc = "next_file" /\ file_idx = Len(files)
    /\ pc' = "done"
    /\ UNCHANGED <<dedup_vars, files, root_count, chunk_size, file_idx, fpos, buffer,
                   header_found, yielded, unknown_sources, total_qso_count,
                   io_errors, fn_vars>>

NextRun == OpenFile \/ OpenFails \/ ReadChunk \/ EndOfFile \/ ReadFails \/ AllFilesRead

-----------------------------------------------------------------------------
(* One source read with every chunk size *)

\* pieces a source is put together from
MaxPieces == 3

\* the largest chunk size tried
MaxChunk == 5

Pieces == {S("<A:1>x<EOR>"), S("<b:2>yz<eor>"), S("<eOh>"), S("<V:1>3 ")}

RECURSIVE Joined(_)
Joined(parts) == IF parts = <<>> THEN <<>> ELSE Head(parts) \o Joined(Tail(parts))

StreamSources == { Joined(p) : p \in UNION {[1..k -> Pieces] : k \in 1..MaxPieces} }

\* a stretch of n blanks
Blanks(n) == <<-n>>

\* Sources of more than HeaderLimit bytes, two records with blanks between
\* them: one whose header terminator comes after HeaderLimit bytes and more,
\* one whose header terminator ends with byte HeaderLimit, and two without
\* header terminator, of which the first is taken past HeaderLimit by its
\* last chunk
LongSources ==
    { S("<A:1>x<EOR>") \o Blanks(HeaderLimit + ProgramChunkSize) \o S("<eOh><b:2>yz<eor>"),
      S("<A:1>x<EOR>") \o Blanks(HeaderLimit - 16) \o S("<eOh><b:2>yz<eor>"),
      S("<A:1>x<EOR>") \o Blanks(HeaderLimit) \o S("<b:2>yz<eor>"),
      S("<A:1>x<EOR>") \o Blanks(HeaderLimit + ProgramChunkSize) \o S("<b:2>yz<eor>") }

\* the chunk size of the program, one half as large again, and one that ends
\* the first chunk inside a header terminator that ends with byte HeaderLimit
LongChunks == {ProgramChunkSize, 3 * 1024 * 1024, HeaderLimit - 2}

\* a short source read with every chunk size up to MaxChunk, a long one with
\* the chunk sizes for long sources
InitStream ==
    \/ \E source \in StreamSources, size \in 1..MaxChunk : StartRun(<<source>>, size, 1)
    \/ \E source \in LongSources, size \in LongChunks : StartRun(<<source>>, size, 1)

SpecStream == InitStream /\ [][NextRun]_vars

\* offset of the header terminator in a source, -1 without one
EohIndex(source) == Find(Lower(source), EohMarker)

ReadWhole(i) == stream_records(files[i], ByteLen(files[i]), HeaderLimit, FileName(i))

StreamDone(i) == pc = "done" /\ i \in 1..Len(files) /\ i \notin io_errors

\* C6: for a source that contains a header terminator, the records yielded
\* are those yielded when the whole source is read as a single chunk,
\* whatever the chunk size.
C6_ChunkIndependence ==
    \A i \in 1..Len(files) :
        (StreamDone(i) /\ EohIndex(files[i]) # -1) => yielded[i] = ReadWhole(i)

\* C6 (amended): for a source whose header terminator ends within the
\* first HeaderLimit bytes, the records yielded are those yielded when the
\* whole source is read as a single chunk, whatever the chunk size.
C6_ChunkIndependenceWithinLimit ==
    \A i \in 1..Len(files) :
        (StreamDone(i) /\ EohIndex(files[i]) # -1
                       /\ EohIndex(files[i]) + 5 <= HeaderLimit)
        => yielded[i] = ReadWhole(i)

\* a source read to its end in chunks that split its header terminator, with
\* records after the header
C6_Witness ==
    /\ StreamDone(1)
    /\ EohIndex(files[1]) # -1
    /\ EohIndex(files[1]) + 5 <= HeaderLimit
    /\ EohIndex(files[1]) \div chunk_size # (EohIndex(files[1]) + 4) \div chunk_size
    /\ Len(yielded[1]) >= 2

-----------------------------------------------------------------------------
(* A run over several sources *)

\* sources of one run
MaxFiles == 2

\* a log with a header and two contacts 10 minutes apart; a log without
\* header that repeats the contact and ends with a record without date; a log
\* with and without station callsign
RunSources ==
    { S("<eoh><call:1>k<qso_date:6>202411<eor><CALL:1>K<qso_date:6>202411<time_on:4>0010<eor>"),
      S("<call:1>k<qso_date:6>202411<time_on:4>0020<eor><call:1>j<eor>"),
      S("<eoh><station_callsign:3>b/p<call:1>k<eor><Station_Callsign:1> <call:1>k")
        \o S("<qso_date:8>20241101<eor><call:1>K<qso_date:8>20241101<eor>") }

\* a log whose second record has a tag with a length of more digits than
\* int() converts
LongLengthSource ==
    S("<eoh><A:1>x<eor><B:") \o [i \in 1..(IntMaxStrDigits + 1) |-> 49]
        \o S(">y<eor><C:1>z<eor>")

\* the runs over that log alone and over that log followed by another one
LongLengthRuns == {<<LongLengthSource>>} \cup {<<LongLengthSource, s>> : s \in RunSources}

InitRun == \E sources \in UNION {[1..k -> RunSources] : k \in 1..MaxFiles} \cup LongLengthRuns :
               \E roots \in 0..Len(sources) : StartRun(sources, ProgramChunkSize, roots)

SpecRun == InitRun /\ [][NextRun]_vars

\* the process_record calls the loop makes for the records yielded so far,
\* source after source
RECURSIVE CallsFor(_)
CallsFor(recs) ==
    IF recs = <<>> THEN <<>>
    ELSE <<<<Head(recs), group_key_of(Head(recs))>>>> \o CallsFor(Tail(recs))

RECURSIVE YieldedCalls(_)
YieldedCalls(i) ==
    IF i = 0 THEN <<>> ELSE YieldedCalls(i - 1) \o CallsFor(yielded[i])

\* C8: an I/O error on a source ends that source's stream only: the error
\* step returns control to the loop over the sources and changes nothing of
\* what was yielded, classified and stored; the sources are visited one after
\* the other without a gap; and at the end of the run every source without
\* error has been read to its end, the stored state being the one made by the
\* records yielded, in order.
C8_IoErrorEndsOnlyThatSource ==
    /\ [][(io_errors' # io_errors)
          => /\ pc' = "next_file"
             /\ file_idx' \in {file_idx, file_idx + 1}
             /\ io_errors' = io_errors \cup {file_idx'}
             /\ UNCHANGED <<dedup_vars, yielded, unknown_sources, total_qso_count>>]_vars
    /\ [][file_idx' # file_idx => file_idx' = file_idx + 1]_vars
    /\ [](pc = "done"
          => /\ file_idx = Len(files)
             /\ \A i \in 1..Len(files) :
                   i \notin io_errors
                   => yielded[i] = stream_records(files[i], chunk_size, HeaderLimit,
                                                  FileName(i))
             /\ calls = YieldedCalls(Len(files))
             /\ Dedup = Replay(NewDeduplicator, calls))

\* a run is over in which a source failed after yielding a record and a later
\* source was read to its end, a duplicate being found on the way
C8_Witness ==
    /\ pc = "done"
    /\ \E i \in io_errors, j \in 1..Len(files) :
          /\ i < j /\ j \notin io_errors
          /\ yielded[i] # <<>>
          /\ yielded[j] # <<>>
    /\ dupe_details # <<>>

-----------------------------------------------------------------------------
(* More properties of the deduplicator *)

\* the candidate lists of the index: <<group key, (CALL, BAND, MODE), list>>
Buckets ==
    UNION { { <<lookup_index[i][1], lookup_index[i][2][j][1], lookup_index[i][2][j][2]>> :
                j \in 1..Len(lookup_index[i][2]) } : i \in 1..Len(lookup_index) }

\* C11: a record accepted because its CALL is empty or its time key is absent
\* is in its group's stored list, in no candidate list of the index, and is
\* the matched record of no duplicate event.
C11_IncompleteNeverIndexed ==
    \A k \in 1..Len(calls) :
        ~Comparable(calls[k][1])
        => /\ InSeq(calls[k][1], StoredIn(calls[k][2]))
           /\ \A b \in Buckets : \A j \in 1..Len(b[3]) : b[3][j][2] # calls[k][1]
           /\ \A i \in 1..Len(dupe_details) : dupe_details[i].old_rec # calls[k][1]

\* a record with a callsign but no date was accepted between two comparable
\* records of the same callsign, the second of which is a duplicate
C11_Witness ==
    /\ Len(calls) = 3
    /\ ~Comparable(calls[2][1]) /\ CallOf(calls[2][1]) # <<>>
    /\ calls[1][2] = calls[2][2] /\ calls[2][2] = calls[3][2]
    /\ Len(dupe_details) = 1
    /\ dupe_details[1].new_rec = calls[3][1]


RECURSIVE StoredCount(_)
StoredCount(stores) ==
    IF stores = <<>> THEN 0 ELSE Len(Head(stores)[2]) + StoredCount(Tail(stores))

IsPrefix(s, t) == Len(s) <= Len(t) /\ SubSeq(t, 1, Len(s)) = s

\* the candidate lists after the step extend the ones before it, by at most
\* the entry of the new record
IndexOnlyGrows(rec) ==
    \A b \in Buckets :
        \E c \in Buckets' :
            /\ c[1] = b[1] /\ c[2] = b[2]
            /\ IsPrefix(b[3], c[3])
            /\ Len(c[3]) <= Len(b[3]) + 1
            /\ Len(c[3]) = Len(b[3]) + 1 => c[3][Len(c[3])][2] = rec

\* C12: each process_record call appends the incoming record either to its
\* group's stored list (earlier duplicate events unchanged, the index extended
\* by at most the record's own entry) or to the duplicate events (stored lists
\* and index unchanged), never both; everything stored, indexed or reported
\* before stays as it was and in the same order; and after n calls the stored
\* records and the duplicate events number n together.
C12_AppendOnly ==
    /\ [][Len(calls') = Len(calls) + 1
          => LET rec == calls'[Len(calls')][1]
                 g == calls'[Len(calls')][2]
             IN  \/ /\ final_records' = Put(final_records, g, Append(StoredIn(g), rec))
                    /\ dupe_details' = dupe_details
                    /\ IndexOnlyGrows(rec)
                 \/ /\ Len(dupe_details') = Len(dupe_details) + 1
                    /\ IsPrefix(dupe_details, dupe_details')
                    /\ dupe_details'[Len(dupe_details')].new_rec = rec
                    /\ final_records' = final_records
                    /\ lookup_index' = lookup_index]_vars
    /\ [](StoredCount(final_records) + Len(dupe_details) = Len(calls))

\* three calls made: one record stored and indexed, one stored only, one
\* reported as a duplicate
C12_Witness ==
    /\ Len(calls) = 3
    /\ Len(dupe_details) = 1
    /\ StoredCount(final_records) = 2
    /\ \E k \in 1..3 : ~Comparable(calls[k][1])

\* C17: in every candidate list of the index, any two entries have times
\* more than 900 seconds apart.
C17_CandidatesApart ==
    \A b \in Buckets :
        \A i, j \in 1..Len(b[3]) :
            i < j => Abs(TotalSeconds(b[3][i][1], b[3][j][1])) > 900

\* a candidate list of two entries, after a record within the tolerance of
\* one of them was turned away
C17_Witness ==
    /\ \E b \in Buckets : Len(b[3]) = 2
    /\ Len(dupe_details) = 1

\* the places of the index of group g that hold the record
IndexPlaces(g, r) ==
    UNION { {<<b[2], j>> : j \in {k \in 1..Len(b[3]) : b[3][k][2] = r}} :
              b \in {c \in Buckets : c[1] = g} }

\* C18: every entry of a candidate list is a record stored under the same
\* group, whose upper-cased CALL, BAND and MODE are the key of the list and
\* whose time key is the time of the entry; and every stored record that has
\* a CALL and a time key is in exactly one candidate list of its group, at
\* exactly one place.
C18_IndexMatchesStore ==
    /\ \A b \in Buckets :
           \A j \in 1..Len(b[3]) :
               /\ InSeq(b[3][j][2], StoredIn(b[1]))
               /\ Comparable(b[3][j][2])
               /\ KeyOf(b[3][j][2]) = b[2]
               /\ TimeKey(b[3][j][2]) = b[3][j][1]
    /\ \A i \in 1..Len(final_records) :
           \A k \in 1..Len(final_records[i][2]) :
               Comparable(final_records[i][2][k])
                   => Cardinality(IndexPlaces(final_records[i][1],
                                              final_records[i][2][k])) = 1

\* three records stored under one group, two of them in one candidate list
\* and one that has no time key
C18_Witness ==
    /\ Len(final_records) = 1 /\ Len(final_records[1][2]) = 3
    /\ \E b \in Buckets : Len(b[3]) = 2
    /\ \E k \in 1..3 : ~Comparable(final_records[1][2][k])

-----------------------------------------------------------------------------
(* More properties of stream_records *)

\* the records of a source cut at every record terminator from its first
\* byte on, and what follows the last terminator decoded as a final record
HeaderlessRead(i) ==
    FinishStream(ExtractRecords([buffer |-> files[i], header_found |-> TRUE,
                                 out |-> <<>>, raised |-> FALSE],
                                FileName(i)), FileName(i)).out

\* C13: a source without header terminator whose buffer grows past the
\* threshold is read as headerless input: every span that ends with a record
\* terminator is yielded as a record of its own, whichever chunk it was that
\* took the buffer past the threshold, the last one of the source included.
C13_ForcedStartYieldsEverySpan ==
    \A i \in 1..Len(files) :
        (StreamDone(i) /\ EohIndex(files[i]) = -1 /\ ByteLen(files[i]) > HeaderLimit)
            => yielded[i] = HeaderlessRead(i)

\* the source is exhausted: the next f.read returns nothing
Exhausted ==
    pc = "reading" /\ ReadAt(files[file_idx], fpos, chunk_size) = <<>>

\* C19: when a source is exhausted, what is left in the buffer to be decoded
\* as the final record holds no record terminator: every terminator has
\* ended a span of its own before, with or without a header terminator in
\* the source and whatever its size.
C19_RemainderHasNoTerminator ==
    Exhausted => Find(Lower(buffer), EorMarker) = -1


-----------------------------------------------------------------------------
(* More properties of write_adif_file *)

\* C14: every tag of a written record other than the provenance attribute
\* is in the file with its value, a tag whose name begins with an underscore
\* included.
C14_OnlyProvenanceLeftOut ==
    (fn = "write_adif_file" /\ returned /\ result.written /\ RecordEncodable(arg[1]))
    => \A p \in TagMap(arg[1]) :
           Find(result.file, FileEncode(TagText(p[1], p[2]), os_linesep)) # -1


-----------------------------------------------------------------------------
(* Calls of get_qso_time *)

\* longest TIME_ON value built from the alphabet
MaxTimeLen == 7

\* digits that make valid and invalid hours, minutes and seconds
TimeAlphabet == Chars("07")

\* the values built from the alphabet, values of four, six and seven digits,
\* one with a letter, one that starts with the decimal digit U+0661 and one
\* that starts with U+00B2, a digit that is not a decimal
TimeOnValues ==
    Strings(TimeAlphabet, MaxTimeLen)
        \cup {Absent, S("1200"), S("120000"), S("12x0"), S("2359599"),
              <<1633>> \o S("200"), <<178>> \o S("200")}

\* valid dates, a day that the month does not have, a month out of range, a
\* short date, a date with a letter, a date that ends with the decimal digit
\* U+0661, an empty and an absent one
QsoDateValues ==
    {S("20241101"), S("20240229"), S("20230229"), S("20241301"), S("2024111"),
     S("2024110x"), S("2024110") \o <<1633>>, <<>>, Absent}

TimeInputs ==
    { Qso(S("W1AW"), S("20M"), S("SSB"), date, time) :
        date \in QsoDateValues, time \in TimeOnValues }

InitTime == CallOf1("get_qso_time", TimeInputs)

ApplyGetQsoTime == Return("get_qso_time", get_qso_time(arg))

NextTime == ApplyGetQsoTime

SpecTime == InitTime /\ [][NextTime]_vars

\* TIME_ON as six characters: its first six when there are as many, zeros
\* put after it otherwise, six zeros when the record has none
NormalTimeOn(rec) ==
    SubSeq(Get(rec, TagTimeOn, S("000000")) \o S("000000"), 1, 6)

\* eight digits that name a day of the calendar
ValidDate(s) ==
    /\ Len(s) = 8 /\ \A j \in 1..8 : IsDigit(s[j])
    /\ 100 * Num2(s, 1) + Num2(s, 3) >= 1
    /\ Num2(s, 5) \in 1..12
    /\ Num2(s, 7) \in 1..DaysInMonth(100 * Num2(s, 1) + Num2(s, 3), Num2(s, 5))

DateOf(s) == <<100 * Num2(s, 1) + Num2(s, 3), Num2(s, 5), Num2(s, 7)>>

IsDatetime(t) ==
    /\ Len(t) = 6
    /\ t[1] \in 1..9999 /\ t[2] \in 1..12 /\ t[3] \in 1..DaysInMonth(t[1], t[2])
    /\ t[4] \in 0..23 /\ t[5] \in 0..59 /\ t[6] \in 0..59

\* C15: get_qso_time reads the date followed by TIME_ON brought to six
\* characters (zeros put after a shorter value, a longer one cut to its first
\* six, 000000 for a record without TIME_ON): with a valid date, TIME_ON 1200
\* and 120000 both give noon of that date and a record without TIME_ON gives
\* midnight of that date; and the call always returns, either a time or None.
C15_TimeOnNormalized ==
    (fn = "get_qso_time" /\ returned)
    => LET date == Get(arg, TagQsoDate, <<>>)
       IN  /\ result = Strptime(date \o NormalTimeOn(arg))
           /\ (ValidDate(date) /\ ~HasKey(arg, TagTimeOn))
                  => result = DateOf(date) \o <<0, 0, 0>>
           /\ (ValidDate(date) /\ HasKey(arg, TagTimeOn)
                  /\ Get(arg, TagTimeOn, <<>>) \in {S("1200"), S("120000")})
                  => result = DateOf(date) \o <<12, 0, 0>>
           /\ result = None \/ IsDatetime(result)

\* a TIME_ON of four digits was read as noon
C15_Witness ==
    /\ fn = "get_qso_time" /\ returned
    /\ Get(arg, TagQsoDate, <<>>) = S("20240229")
    /\ Get(arg, TagTimeOn, <<>>) = S("1200")
    /\ result = <<2024, 2, 29, 12, 0, 0>>


-----------------------------------------------------------------------------
(* More properties of the loop over the sources *)

\* the records yielded from the i-th source that have no STATION_CALLSIGN or
\* a blank one
WithoutCallsign(i) ==
    {k \in 1..Len(yielded[i]) : CleanCallsign(yielded[i][k]) = <<>>}

ReportedBy(rec, g) ==
    \E e \in 1..Len(dupe_details) :
        dupe_details[e].new_rec = rec /\ dupe_details[e].station = g

\* C16: at the end of a run the missing-callsign count of every source is the
\* number of records yielded from it without STATION_CALLSIGN or with a blank
\* one; these records, and no record with a callsign, go to a group named
\* after the UNKNOWN placeholder, the others to the group of their cleaned
\* callsign; and every yielded record went through process_record and is
\* either stored in its group or reported as a duplicate in it.
C16_MissingCallsignTally ==
    pc = "done"
    => /\ \A i \in 1..Len(files) :
              Get(unknown_sources, FilePath(i), 0) = Cardinality(WithoutCallsign(i))
       /\ calls = YieldedCalls(Len(files))
       /\ total_qso_count = Len(calls)
       /\ \A k \in 1..Len(calls) :
              /\ IsPrefix((IF CleanCallsign(calls[k][1]) = <<>> THEN Unknown
                           ELSE CleanCallsign(calls[k][1])) \o <<45>>, calls[k][2])
              /\ InSeq(calls[k][1], StoredIn(calls[k][2]))
                     \/ ReportedBy(calls[k][1], calls[k][2])

\* a run over a source with a callsign in one record, a blank one in the
\* next and none in the last, which is a duplicate of the one before
C16_Witness ==
    /\ pc = "done" /\ io_errors = {}
    /\ \E i \in 1..Len(files) :
          /\ Len(yielded[i]) = 3
          /\ Get(unknown_sources, FilePath(i), 0) = 2
    /\ \E e \in 1..Len(dupe_details) : IsPrefix(Unknown, dupe_details[e].station)
    /\ \E k \in 1..Len(calls) : ~IsPrefix(Unknown, calls[k][2])


=============================================================================
